---- MODULE Spec2Model ----
(***************************************************************************)
(* A model of the store pipeline of shopify_review_page-scraping:          *)
(*   - the url-finder service: the stores table, the row lock of           *)
(*     lock_store_for_processing / unlock_store, the BackgroundWorker      *)
(*     loop and the manual endpoints (SpecUrl, and SpecUrlAnySweep where   *)
(*     any cycle of the loop may sweep);                                   *)
(*   - the email-scraper service's update_store_emails and failure         *)
(*     writes, statement by statement (SpecEmailDb);                       *)
(*   - the EmailScraper's rate-limit state across crawl sessions           *)
(*     (SpecCrawl).                                                        *)
(* Each specification drives its own variables and leaves the others at    *)
(* their initial value.                                                    *)
(***************************************************************************)
EXTENDS Integers, Sequences, FiniteSets, TLC

(* ----------------------------- bounds ---------------------------------- *)
\* Number of rows of the stores table.
NumStores == 1

\* discover_pages follows NumHighValue high-value pages (5 in the code).
NumHighValue == 1
\* Length of the page_queue a crawl session scrapes (27 to max_pages in
\* the code).
NumPages == 1
\* url-finder config.py: GEMINI_MAX_RETRIES.
GEMINI_MAX_RETRIES == 3
\* url-finder config.py: GEMINI_RETRY_DELAY (1.0 s), in milliseconds.
GEMINI_RETRY_DELAY_MS == 1000
\* GeminiSearch.find_store_url: the cap of the retry delay (30.0 s).
GEMINI_MAX_RETRY_DELAY_MS == 30000
\* The longest raw_emails list and the longest list the provider answers
\* with.
MaxRawEmails == 2
MaxRelevant == 2
\* The longest local part of an email string.
MaxLocal == 4
\* The most links a sitemap, a footer or a page carries.
MaxLinks == 2

\* The threads started on run_continuous and the BackgroundWorker objects
\* created in one behaviour.
MaxThreads == 2
MaxWorkers == 2
\* email-scraper config.py: MAX_CONCURRENT_EMAIL_SCRAPING, read from the
\* environment (10 by default).
MAX_CONCURRENT_EMAIL_SCRAPING == 2

(* ------------------------- program constants --------------------------- *)
\* config.py: WORKER_MAX_RETRIES, WORKER_BATCH_SIZE.
WORKER_MAX_RETRIES == 3
WORKER_BATCH_SIZE == 10
\* run_continuous: "if cycle_count % 10 == 0".
SWEEP_EVERY == 10
\* "updated_at < NOW() - INTERVAL '30 minutes'": one tick of the model's
\* clock is 30 minutes, a row is stale when it is more than one tick old.
STALE_TICKS == 1


\* email-scraper config.py: EMAIL_SCRAPER_DELAY (2.0 s), in milliseconds.
BASE_DELAY_MS == 2000
\* EmailScraper.__init__: max_delay (60.0 s), in milliseconds.
MAX_DELAY_MS == 60000
\* EmailScraper.__init__: max_consecutive_429.
max_consecutive_429 == 5
\* email-scraper config.py: EMAIL_SCRAPER_MAX_RETRIES.
max_retries == 3
\* email-scraper config.py: EMAIL_SCRAPING_MAX_RETRIES.
EMAIL_SCRAPING_MAX_RETRIES == 3
\* url-finder config.py: AUTO_SAVE_THRESHOLD (0.7) and
\* LOW_CONFIDENCE_THRESHOLD (0.5); confidences are in hundredths.
AUTO_SAVE_THRESHOLD == 70
LOW_CONFIDENCE_THRESHOLD == 50
\* process_store: "confidence = max(0.0, confidence - 0.1)".
ALTERNATIVE_PENALTY == 10
\* confidence is None.
NoConfidence == -1
\* get_target_pages: the number of paths in `targets`; config.py:
\* EMAIL_SCRAPER_MAX_PAGES.
NumTargetPages == 27
EMAIL_SCRAPER_MAX_PAGES == 50

Stores == 1..NumStores
NoStore == 0
\* The processes that may claim a store: the worker loops (run_continuous)
\* and the requests of the manual process-store endpoint.
Workers == {"w1"}
Handlers == {"m1"}
Procs == Workers \cup Handlers
NoProc == "none"
\* The threads of email_scraping_executor that run jobs in the model.
Threads == {"t1", "t2"}
\* The rows of the stores table the admission code chooses from: one more
\* than the ceiling.
SchedStores == 1..(MAX_CONCURRENT_EMAIL_SCRAPING + 1)
\* stores.app_name: the stores alternate between two apps; NoApp stands for
\* a call without app_name.
Apps == {1, 2}
NoApp == 0
AppOf(s) == (s % 2) + 1
\* The calls of the admission code that may be in progress at once: HTTP
\* requests and the finally blocks of finished jobs.
Callers == {"r1", "r2"}

Min(a, b) == IF a < b THEN a ELSE b
Max(a, b) == IF a > b THEN a ELSE b

VARIABLES
  \* ---- the stores table (shared by both services) ----
  status,                \* stores.status
  base_url,              \* stores.base_url: "" (NULL or empty) or "url"
  age,                   \* ticks since stores.updated_at
  url_finding_attempts,  \* stores.url_finding_attempts
  rowlock,               \* holder of the row lock taken by FOR UPDATE NOWAIT
  \* ---- url-finder processes ----
  pc,                    \* position of each process
  cur,                   \* store the process is working on
  batch,                 \* run_continuous: the rest of `stores`
  cycle_count,           \* run_continuous: cycle_count modulo SWEEP_EVERY
  \* ---- history ----
  winners,               \* per store: processes whose lock call returned
                         \* True since the last other write to the row
  \* ---- email-scraper service: the table and the pool's jobs ----
  emails_found,          \* stores.emails_found (number of emails stored)
  job_pc,                \* position of each pool thread in its job
  job_store,             \* store the thread's job is about
  job_result,            \* what the crawl returned: emails, scraping_error
  current_status,        \* update_store_emails: the status its SELECT read
  \* ---- the EmailScraper object shared by the pool's threads ----
  current_delay,         \* milliseconds
  consecutive_429_count,
  circuit_open,
  wait_time,             \* last value returned by _handle_rate_limit (ms)
  \* ---- crawl sessions (one scrape_emails call per thread) ----
  crawl_pc,              \* position of each thread in scrape_emails
  phase,                 \* "discovery" or "scrape"
  page_index,            \* index of the fetch within the phase
  attempt,               \* get_page: attempt
  opened,                \* history: the breaker opened in this session
  \* ---- email-scraper app.py: the admission of crawl jobs ----
  active_email_scraping_jobs,  \* the set of store ids being crawled
  pending_rows,          \* rows get_stores_with_urls_no_emails matches
  call_pc,               \* position of each call of the admission code
  call_app,              \* its app_name (NoApp for None)
  active_store_ids_set,  \* its snapshot of active_email_scraping_jobs
  stores_to_process,     \* the stores it is about to add
  after_completion,      \* history: the call was made by a finished job
  \* ---- email-scraper retries ----
  cooldown_elapsed,      \* email_scraping_failed_at is older than the
                         \* cooldown
  failed_crawls,         \* history: crawls of the store that failed in a
                         \* row, up to EMAIL_SCRAPING_MAX_RETRIES
  \* ---- url-finder: the decision on a resolver's result ----
  resolve_pc,            \* per store: "idle", "locked" (the worker holds
                         \* it), "processed" (process_store returned)
  last_result,           \* history, per store: the last result decided
                         \* on, what was decided and what was kept
  \* ---- url-finder: find_url_with_fallback ----
  worker_config,         \* PROVIDER_PRIORITY, which providers the worker
                         \* built, selected_provider, the store in hand
  fallback_pc,           \* position in process_store's resolver part
  provider_calls,        \* history: the providers called and what each
                         \* answered, in call order
  fallback_result,       \* what find_url_with_fallback returned
  url_finding_error,     \* stores.url_finding_error
  \* ---- url-finder: starting and stopping the worker ----
  running,               \* BackgroundWorker.running
  stop_requested,        \* history: the flag was cleared (stop() or a
                         \* signal) and no start was requested since
  in_flight,             \* history: the store the worker had in hand
                         \* when the flag was cleared
  \* ---- email-scraper: the statistics of one crawl and its outcome ----
  stats,                 \* scrape_emails: pages_discovered, pages_scraped,
                         \* pages_failed
  fetched,               \* the last get_page returned the page's text
  scraping_error,        \* scrape_emails_for_store: scraping_error
  fetch_log,             \* history: the HTTP requests the current get_page
                         \* call has issued and the last response
  \* ---- url-finder: the jobs table and POST /api/jobs ----
  jobs,                  \* the rows of table jobs, in id order
  job_request,           \* per request of POST /api/jobs: its position,
                         \* its app_url, the row get_job_by_url returned
                         \* and the job_id it answered with
  \* ---- email-scraper: one call of extract_relevant_emails ----
  extraction,            \* its raw_emails, whether it has run, what the
                         \* provider answered and the emails it returned
  \* ---- the stores table: the emails kept for a store ----
  store_emails,          \* stores.emails (the accepted emails)
  store_raw_emails,      \* stores.raw_emails
  \* ---- EmailProcessor.normalize_email, applied twice ----
  normalization,         \* the input, how often it was normalized and the
                         \* two results
  \* ---- EmailScraper.discover_pages ----
  discovery,             \* max_pages, the position in discover_pages,
                         \* page_queue (before and after the sort), seen
                         \* and the returned list
  \* ---- GeminiSearch.find_store_url ----
  gemini,                \* the generate_content calls of one find_store_url,
                         \* the sleeps between them, last_error and how
                         \* the call ended
  \* ---- the threads started on run_continuous ----
  loops                  \* the global worker and worker_thread of app.py,
                         \* the running flag of each BackgroundWorker, each
                         \* thread's position in run_continuous, and the
                         \* position of a provider change

urlVars == <<status, base_url, age, url_finding_attempts, rowlock, pc,
             cur, batch, cycle_count, winners>>

emailVars == <<emails_found, job_pc, job_store, job_result, current_status>>

scraperVars == <<current_delay, consecutive_429_count, circuit_open, wait_time>>

crawlVars == <<scraperVars, crawl_pc, phase, page_index, attempt, opened>>

schedVars == <<active_email_scraping_jobs, pending_rows, call_pc, call_app,
               active_store_ids_set, stores_to_process, after_completion>>

retryVars == <<cooldown_elapsed, failed_crawls>>

resolveVars == <<resolve_pc, last_result>>

fallbackVars == <<worker_config, fallback_pc, provider_calls, fallback_result,
                  url_finding_error>>

loopVars == <<running, stop_requested, in_flight>>

statsVars == <<stats, fetched, scraping_error, fetch_log>>

jobVars == <<jobs, job_request>>

pureVars == <<extraction>>

contentVars == <<store_emails, store_raw_emails>>

normVars == <<normalization>>

discoverVars == <<discovery>>

geminiVars == <<gemini>>

threadVars == <<loops>>

extVars == <<fallbackVars, loopVars, statsVars, jobVars, pureVars,
             contentVars, normVars, discoverVars,
             geminiVars,
             threadVars>>

\* What the actions of one part leave unchanged besides the stores table.
othersOfFallback == <<emailVars, crawlVars, schedVars, retryVars, resolveVars,
                      loopVars, statsVars, jobVars, pureVars,
    contentVars, normVars, discoverVars,
    geminiVars,
    threadVars>>
othersOfLoop == <<emailVars, crawlVars, schedVars, retryVars, resolveVars,
                  fallbackVars, statsVars, jobVars, pureVars,
    contentVars, normVars, discoverVars,
    geminiVars,
    threadVars>>
othersOfStats == <<schedVars, retryVars, resolveVars, fallbackVars, loopVars,
                   jobVars, pureVars,
    contentVars, normVars, discoverVars,
    geminiVars,
    threadVars>>
othersOfJobs == <<urlVars, emailVars, crawlVars, schedVars, retryVars,
                  resolveVars, fallbackVars, loopVars, statsVars, pureVars,
    contentVars, normVars, discoverVars,
    geminiVars,
    threadVars>>
othersOfPure == <<urlVars, emailVars, crawlVars, schedVars, retryVars,
                  resolveVars, fallbackVars, loopVars, statsVars, jobVars,
    contentVars, normVars, discoverVars,
    geminiVars,
    threadVars>>
othersOfContent == <<crawlVars, schedVars, retryVars, resolveVars,
                     fallbackVars, loopVars, statsVars, jobVars, pureVars,
                     normVars, discoverVars,
    geminiVars,
    threadVars>>
othersOfNorm == <<urlVars, emailVars, crawlVars, schedVars, retryVars,
                  resolveVars, fallbackVars, loopVars, statsVars, jobVars,
                  pureVars, contentVars, discoverVars,
    geminiVars,
    threadVars>>
othersOfDiscover == <<urlVars, emailVars, crawlVars, schedVars, retryVars,
                      resolveVars, fallbackVars, loopVars, statsVars, jobVars,
                      pureVars, contentVars, normVars,
    geminiVars,
    threadVars>>
othersOfGemini == <<urlVars, emailVars, crawlVars, schedVars, retryVars,
                  resolveVars, fallbackVars, loopVars, statsVars, jobVars,
                  pureVars, contentVars, discoverVars, normVars,
    threadVars>>
othersOfThreads == <<urlVars, emailVars, crawlVars, schedVars, retryVars,
                  resolveVars, fallbackVars, loopVars, statsVars, jobVars,
                  pureVars, contentVars, discoverVars,
    geminiVars, normVars>>

restVars == <<schedVars, retryVars, resolveVars, extVars>>

nonUrlVars == <<emailVars, crawlVars, restVars>>

vars == <<urlVars, emailVars, crawlVars, restVars>>

(* ---------------------- url-finder: database.py ------------------------ *)

\* "updated_at < NOW() - INTERVAL '30 minutes'"
Stale(s) == age[s] > STALE_TICKS

\* The SELECT of lock_store_for_processing without its condition on status
\* and updated_at: any row with this id.
LockRowMatches_AnyStatus(s) == s \in Stores

\* WHERE clause of the SELECT ... FOR UPDATE NOWAIT of lock_store_for_processing.
LockRowMatches(s) == status[s] # "processing" \/ Stale(s)

\* The CASE expression of unlock_store and unlock_stuck_stores.
UnlockStatus(st, url) == IF url # "" THEN st ELSE "pending_url"

\* WHERE clause of get_pending_stores_excluding_processing.
\* ('url_found' is written by no statement of either service.)
PendingRowMatches(s) ==
  /\ (status[s] = "pending_url" \/ status[s] = "url_found")
  /\ (status[s] # "processing" \/ Stale(s))

RECURSIVE SortedSeq(_)
SortedSeq(S) ==
  IF S = {} THEN <<>>
  ELSE LET m == CHOOSE x \in S : \A y \in S : x <= y
       IN <<m>> \o SortedSeq(S \ {m})

Take(q, n) == SubSeq(q, 1, Min(Len(q), n))

\* get_pending_stores_excluding_processing(limit): rows ORDER BY id LIMIT n,
\* each with the url_finding_attempts it had when it was read.
PendingBatch(n) ==
  LET ids == Take(SortedSeq({s \in Stores : PendingRowMatches(s)}), n)
  IN [i \in 1..Len(ids) |->
        [id |-> ids[i], attempts |-> url_finding_attempts[ids[i]]]]

\* A write of stores.status (every such statement also sets updated_at).
\* A statement waits for a row lock held by another transaction.
WriteStatus(s, st) ==
  /\ rowlock[s] = NoProc
  /\ status' = [status EXCEPT ![s] = st]
  /\ age' = [age EXCEPT ![s] = 0]
  /\ winners' = [winners EXCEPT ![s] = {}]

(* --------------- url-finder: BackgroundWorker.run_continuous ----------- *)

\* unlock_stuck_stores(30): one UPDATE over every stale 'processing' row.
SweepRows == {s \in Stores : status[s] = "processing" /\ Stale(s)}

UnlockStuckStores ==
  /\ \A s \in SweepRows : rowlock[s] = NoProc
  /\ status' = [s \in Stores |->
       IF s \in SweepRows THEN UnlockStatus(status[s], base_url[s])
       ELSE status[s]]
  /\ age' = [s \in Stores |-> IF s \in SweepRows THEN 0 ELSE age[s]]
  /\ winners' = [s \in Stores |-> IF s \in SweepRows THEN {} ELSE winners[s]]

\* Top of the while loop: count the cycle and, every SWEEP_EVERY cycles,
\* sweep the stuck stores.
RunCycle(p) ==
  /\ pc[p] = "idle"
  /\ LET c == (cycle_count[p] + 1) % SWEEP_EVERY IN
     /\ cycle_count' = [cycle_count EXCEPT ![p] = c]
     /\ IF c = 0
        THEN UnlockStuckStores
        ELSE UNCHANGED <<status, age, winners>>
  /\ pc' = [pc EXCEPT ![p] = "fetch"]
  /\ UNCHANGED <<base_url, url_finding_attempts, rowlock, cur, batch>>
  /\ UNCHANGED nonUrlVars

\* stores = get_pending_stores_excluding_processing(limit=WORKER_BATCH_SIZE);
\* an empty batch sleeps and starts the next cycle.
FetchBatch(p) ==
  /\ pc[p] = "fetch"
  /\ batch' = [batch EXCEPT ![p] = PendingBatch(WORKER_BATCH_SIZE)]
  /\ pc' = [pc EXCEPT ![p] = IF batch'[p] = <<>> THEN "idle" ELSE "next"]
  /\ UNCHANGED <<status, base_url, age, url_finding_attempts, rowlock,
                 cur, cycle_count, winners>>
  /\ UNCHANGED nonUrlVars

\* "for store in stores": take the next store of the batch, or sleep.
NextStore(p) ==
  /\ pc[p] = "next"
  /\ IF batch[p] = <<>>
     THEN /\ pc' = [pc EXCEPT ![p] = "idle"]
          /\ UNCHANGED cur
     ELSE /\ cur' = [cur EXCEPT ![p] = Head(batch[p]).id]
          /\ pc' = [pc EXCEPT ![p] = "lock_select"]
  /\ UNCHANGED <<status, base_url, age, url_finding_attempts, rowlock,
                 batch, cycle_count, winners>>
  /\ UNCHANGED nonUrlVars

\* What follows a lock call that returned False: the worker skips to the
\* next store of its batch, the endpoint answers 409.
AfterLockFailed(p) ==
  /\ pc' = [pc EXCEPT ![p] = IF p \in Workers THEN "next" ELSE "idle"]
  /\ batch' = [batch EXCEPT ![p] =
       IF p \in Workers THEN Tail(batch[p]) ELSE batch[p]]
  /\ cur' = [cur EXCEPT ![p] = NoStore]

\* "if not self.db.lock_store_for_processing(store_id): ... continue" and
\* the endpoint's 409.
SkipLocked(p) ==
  /\ pc[p] = "lock_failed"
  /\ AfterLockFailed(p)
  /\ UNCHANGED <<status, base_url, age, url_finding_attempts, rowlock,
                 cycle_count, winners>>
  /\ UNCHANGED nonUrlVars

\* lock_store_for_processing, first statement: SELECT ... FOR UPDATE NOWAIT.
\* A row locked by another transaction raises OperationalError (False); a
\* row that does not match returns False; a matching row is locked.
LockSelect(p) ==
  /\ pc[p] = "lock_select"
  /\ LET s == cur[p] IN
     IF rowlock[s] = NoProc /\ LockRowMatches(s)
     THEN /\ rowlock' = [rowlock EXCEPT ![s] = p]
          /\ pc' = [pc EXCEPT ![p] = "lock_update"]
          /\ UNCHANGED <<batch, cur>>
     ELSE /\ pc' = [pc EXCEPT ![p] = "lock_failed"]
          /\ UNCHANGED <<rowlock, batch, cur>>
  /\ UNCHANGED <<status, base_url, age, url_finding_attempts,
                 cycle_count, winners>>
  /\ UNCHANGED nonUrlVars

\* lock_store_for_processing, second statement and commit: mark the row
\* 'processing', release the row lock, return True.
LockUpdate(p) ==
  /\ pc[p] = "lock_update"
  /\ LET s == cur[p] IN
     /\ status' = [status EXCEPT ![s] = "processing"]
     /\ age' = [age EXCEPT ![s] = 0]
     /\ rowlock' = [rowlock EXCEPT ![s] = NoProc]
     /\ winners' = [winners EXCEPT ![s] = winners[s] \cup {p}]
  /\ pc' = [pc EXCEPT ![p] = IF p \in Workers THEN "check_retries"
                                                   ELSE "process"]
  /\ UNCHANGED <<base_url, url_finding_attempts, cur, batch, cycle_count>>
  /\ UNCHANGED nonUrlVars

\* run_continuous after the lock: the retry limit, read from the row as
\* fetched with the batch, then increment_url_finding_attempts. A failing
\* database call raises into the handler that unlocks.
CheckRetries(p) ==
  /\ pc[p] = "check_retries"
  /\ LET s == cur[p] IN
     IF Head(batch[p]).attempts >= WORKER_MAX_RETRIES
     THEN /\ WriteStatus(s, "needs_review")
          /\ pc' = [pc EXCEPT ![p] = "unlock"]
          /\ UNCHANGED url_finding_attempts
     ELSE \/ /\ rowlock[s] = NoProc
             /\ url_finding_attempts' = [url_finding_attempts EXCEPT ![s] = @ + 1]
             /\ age' = [age EXCEPT ![s] = 0]
             /\ pc' = [pc EXCEPT ![p] = "process"]
             /\ UNCHANGED <<status, winners>>
          \/ /\ pc' = [pc EXCEPT ![p] = "unlock"]
             /\ UNCHANGED <<status, age, winners, url_finding_attempts>>
  /\ UNCHANGED <<base_url, rowlock, cur, batch, cycle_count>>
  /\ UNCHANGED nonUrlVars

\* The outcomes of BackgroundWorker.process_store: the URL is saved
\* (update_store_url), the store is marked needs_review or not_found, or an
\* exception leaves the row as it is.
ProcessOutcomes == {"saved", "needs_review", "not_found", "raise"}

ProcessStore(p, outcome) ==
  /\ pc[p] = "process"
  /\ LET s == cur[p] IN
     CASE outcome = "saved" ->
            /\ WriteStatus(s, "url_verified")
            /\ base_url' = [base_url EXCEPT ![s] = "url"]
       [] outcome = "needs_review" ->
            /\ WriteStatus(s, "needs_review")
            /\ UNCHANGED base_url
       [] outcome = "not_found" ->
            /\ WriteStatus(s, "not_found")
            /\ UNCHANGED base_url
       [] OTHER ->
            UNCHANGED <<status, age, winners, base_url>>
  /\ pc' = [pc EXCEPT ![p] = "unlock"]
  /\ UNCHANGED <<url_finding_attempts, rowlock, cur, batch, cycle_count>>
  /\ UNCHANGED nonUrlVars

\* unlock_store: UPDATE ... WHERE id = %s AND status = 'processing'; then
\* the worker goes on with its batch and the endpoint returns.
Unlock(p) ==
  /\ pc[p] = "unlock"
  /\ LET s == cur[p] IN
     /\ rowlock[s] = NoProc
     /\ IF status[s] = "processing"
        THEN /\ status' = [status EXCEPT ![s] = UnlockStatus(status[s], base_url[s])]
             /\ age' = [age EXCEPT ![s] = 0]
             /\ winners' = [winners EXCEPT ![s] = {}]
        ELSE UNCHANGED <<status, age, winners>>
  /\ pc' = [pc EXCEPT ![p] = IF p \in Workers THEN "next" ELSE "idle"]
  /\ batch' = [batch EXCEPT ![p] =
       IF p \in Workers THEN Tail(batch[p]) ELSE batch[p]]
  /\ cur' = [cur EXCEPT ![p] = NoStore]
  /\ UNCHANGED <<base_url, url_finding_attempts, rowlock, cycle_count>>
  /\ UNCHANGED nonUrlVars

\* A worker process dies in the middle of process_store: the row stays
\* 'processing', nothing unlocks it, and a new worker process (a new
\* run_continuous, its cycle_count at 0) is started in its place.
CrashAndRestart(p) ==
  /\ pc[p] = "process"
  /\ pc' = [pc EXCEPT ![p] = "idle"]
  /\ cur' = [cur EXCEPT ![p] = NoStore]
  /\ batch' = [batch EXCEPT ![p] = <<>>]
  /\ cycle_count' = [cycle_count EXCEPT ![p] = 0]
  /\ UNCHANGED <<status, base_url, age, url_finding_attempts, rowlock,
                 winners>>
  /\ UNCHANGED nonUrlVars

(* ------------------- url-finder: app.py endpoints ---------------------- *)

\* POST /api/worker/process-store/<id>: a store that already has a URL is
\* answered at once; otherwise the store is locked, processed and unlocked.
ProcessStoreManual(p, s) ==
  /\ pc[p] = "idle"
  /\ IF base_url[s] # ""
     THEN UNCHANGED <<pc, cur>>
     ELSE /\ pc' = [pc EXCEPT ![p] = "lock_select"]
          /\ cur' = [cur EXCEPT ![p] = s]
  /\ UNCHANGED <<status, base_url, age, url_finding_attempts, rowlock, batch,
                 cycle_count, winners>>
  /\ UNCHANGED nonUrlVars

\* POST /api/stores/<id>/skip -> Database.skip_store.
SkipStore(s) ==
  /\ WriteStatus(s, "skipped")
  /\ UNCHANGED <<base_url, url_finding_attempts, rowlock, pc, cur, batch,
                 cycle_count>>
  /\ UNCHANGED nonUrlVars

\* PUT /api/stores/<id>/url and POST .../review/select-url ->
\* Database.update_store_url: a person supplies the URL.
UpdateStoreUrl(s) ==
  /\ WriteStatus(s, "url_verified")
  /\ base_url' = [base_url EXCEPT ![s] = "url"]
  /\ UNCHANGED <<url_finding_attempts, rowlock, pc, cur, batch,
                 cycle_count>>
  /\ UNCHANGED nonUrlVars

(* ------------------------------- time ---------------------------------- *)

\* Thirty minutes pass. One lock call and one process_store are bounded by
\* the providers' and the validator's timeouts, far below thirty minutes, so
\* no tick falls between a live process's lock call and its unlock.
Tick ==
  /\ \A p \in Procs : pc[p] \in {"idle", "fetch", "next"}
  /\ \E s \in Stores : age[s] <= STALE_TICKS
  /\ age' = [s \in Stores |-> Min(age[s] + 1, STALE_TICKS + 1)]
  /\ winners' = [s \in Stores |-> {}]
  /\ UNCHANGED <<status, base_url, url_finding_attempts, rowlock, pc,
                 cur, batch, cycle_count>>
  /\ UNCHANGED nonUrlVars

(* ------------------------- SpecUrl ------------------------------------- *)

\* add_stores inserts every row with the column defaults: status
\* 'pending_url', no URL, no attempts.
InitUrlVars ==
  /\ status = [s \in Stores |-> "pending_url"]
  /\ base_url = [s \in Stores |-> ""]
  /\ age = [s \in Stores |-> 0]
  /\ url_finding_attempts = [s \in Stores |-> 0]
  /\ rowlock = [s \in Stores |-> NoProc]
  /\ pc = [p \in Procs |-> "idle"]
  /\ cur = [p \in Procs |-> NoStore]
  /\ batch = [p \in Procs |-> <<>>]
  /\ cycle_count = [p \in Workers |-> 0]
  /\ winners = [s \in Stores |-> {}]

\* No job is running; no row has emails.
InitEmailVars ==
  /\ emails_found = [s \in Stores |-> 0]
  /\ job_pc = [t \in Threads |-> "idle"]
  /\ job_store = [t \in Threads |-> NoStore]
  /\ job_result = [t \in Threads |-> [emails |-> 0, scraping_error |-> FALSE]]
  /\ current_status = [t \in Threads |-> "none"]

\* EmailScraper.__init__, and no crawl session running.
InitCrawlVars ==
  /\ current_delay = BASE_DELAY_MS
  /\ consecutive_429_count = 0
  /\ circuit_open = FALSE
  /\ wait_time = 0
  /\ crawl_pc = [t \in Threads |-> "idle"]
  /\ phase = [t \in Threads |-> "discovery"]
  /\ page_index = [t \in Threads |-> 0]
  /\ attempt = [t \in Threads |-> 0]
  /\ opened = [t \in Threads |-> FALSE]

\* No result of a resolver has been decided on.
NoResult ==
  [path |-> "none", confidence |-> NoConfidence, validating |-> FALSE,
   primary_valid |-> FALSE, alternative_valid |-> FALSE,
   final_confidence |-> NoConfidence, validated_url |-> "primary",
   action |-> "none", saved_url |-> "none", candidates_kept |-> FALSE]

\* app.py at import: no job is active, no call is in progress; every row
\* of SchedStores waits for its crawl. No store has failed yet.
InitSchedRetryResolve ==
  /\ active_email_scraping_jobs = {}
  /\ pending_rows = SchedStores
  /\ call_pc = [c \in Callers |-> "idle"]
  /\ call_app = [c \in Callers |-> NoApp]
  /\ active_store_ids_set = [c \in Callers |-> {}]
  /\ stores_to_process = [c \in Callers |-> <<>>]
  /\ after_completion = [c \in Callers |-> FALSE]
  /\ cooldown_elapsed = [s \in Stores |-> FALSE]
  /\ failed_crawls = [s \in Stores |-> 0]
  /\ resolve_pc = [s \in Stores |-> "idle"]
  /\ last_result = [s \in Stores |-> NoResult]

\* No URL, no error text, no result of find_url_with_fallback.
NoUrl == [provider |-> "none", kind |-> "none"]
NoError == [kind |-> "none", provider |-> "none"]
NoFallbackResult ==
  [success |-> FALSE, url |-> NoUrl, confidence |-> NoConfidence,
   provider |-> "none", results |-> <<>>, error |-> NoError]

\* BackgroundWorker.__init__ with the default PROVIDER_PRIORITY, both
\* providers built and no selected provider; process_store has not run.
InitFallbackVars ==
  /\ worker_config = [priority |-> <<"gemini", "perplexity">>,
                      gemini |-> TRUE, perplexity |-> TRUE,
                      selected_provider |-> "", store |-> 1]
  /\ fallback_pc = "idle"
  /\ provider_calls = <<>>
  /\ fallback_result = NoFallbackResult
  /\ url_finding_error = [s \in Stores |-> NoError]

\* BackgroundWorker.__init__: self.running = False.
InitLoopVars ==
  /\ running = FALSE
  /\ stop_requested = FALSE
  /\ in_flight = NoStore

\* No crawl has run: no statistics, no scraping_error.
NoStats == [pages_discovered |-> 0, pages_scraped |-> 0, pages_failed |-> 0]
NoFetchLog == [requests |-> 0, response |-> "none"]
InitStatsVars ==
  /\ stats = NoStats
  /\ fetched = FALSE
  /\ scraping_error = "none"
  /\ fetch_log = NoFetchLog

\* No row in table jobs, no request in progress.
NoJob == 0
NoRequest ==
  [pc |-> "idle", app_url |-> "none", existing_job |-> NoJob,
   job_id |-> NoJob]
InitJobVars ==
  /\ jobs = <<>>
  /\ job_request = [c \in Callers |-> NoRequest]

\* extract_relevant_emails has not been called.
NoAiResponse == [kind |-> "none", relevant_emails |-> <<>>]
NoExtraction ==
  [raw_emails |-> <<>>, called |-> FALSE, response |-> NoAiResponse,
   emails |-> <<>>]
InitPureVars ==
  /\ extraction = NoExtraction

\* add_stores: the emails columns are NULL.
InitContentVars ==
  /\ store_emails = [s \in Stores |-> <<>>]
  /\ store_raw_emails = [s \in Stores |-> <<>>]

\* An email string: the characters before the '@' (or the whole string
\* when there is none) and the text after it.
NoEmailString == [local |-> <<>>, has_at |-> FALSE, domain |-> ""]

NoNormalization ==
  [input |-> NoEmailString, pc |-> "start", once |-> NoEmailString,
   twice |-> NoEmailString]

InitNormVars == normalization = NoNormalization

\* EmailScraper.__init__ and the locals of discover_pages.
NoDiscovery ==
  [max_pages |-> EMAIL_SCRAPER_MAX_PAGES, pc |-> "start", page_queue |-> <<>>,
   seen |-> {}, high_value_pages |-> <<>>, followed |-> 0,
   sorted_queue |-> <<>>, returned |-> <<>>]

InitDiscoverVars == discovery = NoDiscovery

\* No find_store_url call of the Gemini provider in progress.
NoGeminiCall ==
  [pc |-> "idle", calls |-> <<>>, sleeps |-> <<>>, last_error |-> "none",
   raised |-> "none"]

InitGeminiVars == gemini = NoGeminiCall

\* The threads that can be started and the worker objects that can be
\* created.
ThreadIds == 1..MaxThreads
WorkerObjects == 1..MaxWorkers

\* app.py after init_worker(): one BackgroundWorker, its running flag
\* False, no thread started, no provider change in progress.
NoLoops ==
  [worker |-> 1,
   running |-> [w \in WorkerObjects |-> FALSE],
   thread |-> [t \in ThreadIds |-> [pc |-> "unstarted", worker |-> 0]],
   worker_thread |-> 0,
   provider_pc |-> "idle",
   was_running |-> FALSE]

InitThreadVars == loops = NoLoops

InitExtVars ==
  /\ InitFallbackVars /\ InitLoopVars /\ InitStatsVars /\ InitJobVars
  /\ InitPureVars /\ InitContentVars /\ InitThreadVars /\ InitGeminiVars /\ InitNormVars /\ InitDiscoverVars

InitRestVars == InitSchedRetryResolve /\ InitExtVars

InitUrl == InitUrlVars /\ InitEmailVars /\ InitCrawlVars /\ InitRestVars

NextUrl ==
  \/ \E p \in Workers : RunCycle(p)
  \/ \E p \in Workers : FetchBatch(p)
  \/ \E p \in Workers : NextStore(p)
  \/ \E p \in Procs : LockSelect(p)
  \/ \E p \in Procs : SkipLocked(p)
  \/ \E p \in Procs : LockUpdate(p)
  \/ \E p \in Workers : CheckRetries(p)
  \/ \E p \in Procs, o \in ProcessOutcomes : ProcessStore(p, o)
  \/ \E p \in Procs : Unlock(p)
  \/ \E p \in Workers : CrashAndRestart(p)
  \/ \E p \in Handlers, s \in Stores : ProcessStoreManual(p, s)
  \/ \E s \in Stores : SkipStore(s)
  \/ \E s \in Stores : UpdateStoreUrl(s)
  \/ Tick

SpecUrl == InitUrl /\ [][NextUrl]_vars

(* ------------------------- SpecUrlAnySweep ----------------------------- *)
\* SpecUrl with the cycle counter left out: a cycle of the worker loop may
\* or may not sweep. Every behaviour of SpecUrl is one of SpecUrlAnySweep
\* (cycle_count apart), so what holds of every behaviour here holds of
\* SpecUrl for any sweep period.
RunCycleAnySweep(p) ==
  /\ pc[p] = "idle"
  /\ \/ UnlockStuckStores
     \/ UNCHANGED <<status, age, winners>>
  /\ pc' = [pc EXCEPT ![p] = "fetch"]
  /\ UNCHANGED <<base_url, url_finding_attempts, rowlock, cur, batch,
                 cycle_count>>
  /\ UNCHANGED nonUrlVars

NextUrlAnySweep ==
  \/ \E p \in Workers : RunCycleAnySweep(p)
  \/ \E p \in Workers : FetchBatch(p)
  \/ \E p \in Workers : NextStore(p)
  \/ \E p \in Procs : LockSelect(p)
  \/ \E p \in Procs : SkipLocked(p)
  \/ \E p \in Procs : LockUpdate(p)
  \/ \E p \in Workers : CheckRetries(p)
  \/ \E p \in Procs, o \in ProcessOutcomes : ProcessStore(p, o)
  \/ \E p \in Procs : Unlock(p)
  \/ \E p \in Workers : CrashAndRestart(p)
  \/ \E p \in Handlers, s \in Stores : ProcessStoreManual(p, s)
  \/ \E s \in Stores : SkipStore(s)
  \/ \E s \in Stores : UpdateStoreUrl(s)
  \/ Tick

SpecUrlAnySweep == InitUrl /\ [][NextUrlAnySweep]_vars

(* ------------------------- claims: url-finder -------------------------- *)

\* C1 (lock exclusivity). Of the lock_store_for_processing calls on one
\* store that are not separated by another write of the row or by the
\* staleness timeout, at most one returns True. A call returns False only
\* when it finds the row locked by another caller's transaction or marked
\* 'processing' and not stale, so of two racing calls on a store that can
\* be claimed exactly one wins. The caller that lost goes on without
\* processing the store.
C1_LockExclusivity ==
  /\ [](\A s \in Stores : Cardinality(winners[s]) <= 1)
  /\ [][\A p \in Procs :
         /\ (pc[p] = "lock_select" /\ pc'[p] = "lock_failed")
              => \/ rowlock[cur[p]] \notin {NoProc, p}
                 \/ (status[cur[p]] = "processing" /\ ~Stale(cur[p]))
         /\ (pc[p] = "lock_failed" /\ pc'[p] # "lock_failed")
              => (pc'[p] \in {"next", "idle"} /\ cur'[p] = NoStore)]_vars

\* C1 witness: one caller won the store and is processing it while the
\* other caller's lock call on the same store has just returned False.
C1_Witness ==
  \E p \in Procs, q \in Procs, s \in Stores :
    /\ p # q
    /\ winners[s] = {p} /\ pc[p] = "process" /\ cur[p] = s
    /\ pc[q] = "lock_failed" /\ cur[q] = s

\* C2 (locks are always released). Whenever a process that locked a store
\* runs unlock_store, the store's status is not 'processing' afterwards.
C2_LockAlwaysReleased ==
  [][\A p \in Procs :
       (pc[p] = "unlock" /\ pc'[p] # "unlock")
         => status'[cur[p]] # "processing"]_vars

\* C3 (forward progress after a crash). The periodic sweep of a running
\* worker loop leaves no store that was stale in 'processing' in
\* 'processing', whether or not the store has a base_url.
C3_SweepReleasesStale ==
  [][\A p \in Workers :
       (pc[p] = "idle" /\ pc'[p] = "fetch" /\ cycle_count'[p] = 0)
         => \A s \in Stores :
              (status[s] = "processing" /\ Stale(s))
                => status'[s] # "processing"]_vars

\* The edges of the lifecycle machine: resolution of a pending store, maybe
\* through the 'processing' marker; the crawl's results; the retry and the
\* permanent failure of a failed crawl; the manual moves.
AllStatuses ==
  {"pending_url", "processing", "url_verified", "needs_review", "not_found",
   "skipped", "emails_found", "no_emails_found", "email_scraping_failed",
   "email_scraping_permanent_failure"}

LifecycleEdges ==
  {<<"pending_url", "processing">>, <<"processing", "pending_url">>}
  \cup ({"pending_url", "processing"}
          \X {"url_verified", "needs_review", "not_found"})
  \cup ({"url_verified"}
          \X {"emails_found", "no_emails_found", "email_scraping_failed"})
  \cup ({"email_scraping_failed"}
          \X {"url_verified", "emails_found", "no_emails_found",
              "email_scraping_permanent_failure"})
  \cup (AllStatuses \X {"url_verified", "skipped"})

\* C7 (lifecycle). Every change of a store's status is an edge of the
\* lifecycle machine.
C7_OnlyLifecycleEdges ==
  [][\A s \in Stores :
       status'[s] # status[s] => <<status[s], status'[s]>> \in LifecycleEdges]_vars

(* ------------- url-finder: update_store_emails (database.py) ----------- *)

\* Database.update_store_emails of the url-finder service: the status is
\* computed from the arguments alone.
UrlFinderEmailStatus(nEmails, scrapingError) ==
  IF scrapingError THEN "url_verified"
  ELSE IF nEmails > 0 THEN "emails_found"
  ELSE "no_emails_found"

\* The emails a manual PUT may carry after validation: none or some.
EmailCounts == {0, 1}

\* PUT /api/stores/<id>/emails: update_store_emails(id, emails, raw, None).
UpdateStoreEmailsManual(s, nEmails) ==
  /\ WriteStatus(s, UrlFinderEmailStatus(nEmails, FALSE))
  /\ emails_found' = [emails_found EXCEPT ![s] = nEmails]
  /\ UNCHANGED <<base_url, url_finding_attempts, rowlock, pc, cur, batch,
                 cycle_count>>
  /\ UNCHANGED <<job_pc, job_store, job_result, current_status, crawlVars, restVars>>

(* ------------- email-scraper service: database.py and app.py ----------- *)

\* The same without the check of the status read: the computed status is
\* always written.
EmailScraperStatus_NoPreserve(current, row, nEmails, scrapingError) ==
  UrlFinderEmailStatus(nEmails, scrapingError)

\* Database.update_store_emails of the email-scraper service: the status
\* its UPDATE leaves in a row whose status is `row`, `current` being the
\* status its SELECT read. For a failed or permanently failed store the
\* UPDATE has no status column.
EmailScraperStatus(current, row, nEmails, scrapingError) ==
  IF current \in {"email_scraping_failed", "email_scraping_permanent_failure"}
  THEN row
  ELSE IF scrapingError THEN "url_verified"
  ELSE IF nEmails > 0 THEN "emails_found"
  ELSE "no_emails_found"

\* active_email_scraping_jobs
ActiveJobs == {job_store[t] : t \in {u \in Threads : job_pc[u] # "idle"}}

\* The WHERE clause of get_stores_with_urls_no_emails.
NoEmailsRowMatches(s) ==
  /\ base_url[s] # ""
  /\ status[s] \in {"url_verified", "url_found"}
  /\ emails_found[s] = 0

\* get_stores_with_urls_no_emails(limit): ORDER BY id LIMIT limit.
GetStoresWithUrlsNoEmails(limit) ==
  Take(SortedSeq({s \in Stores : NoEmailsRowMatches(s)}), limit)

IsAvailable(s) == s \notin ActiveJobs

\* start_next_email_scraping_job: the first pending store that is not
\* active becomes a job of the pool.
StartNextEmailScrapingJob(t) ==
  /\ job_pc[t] = "idle"
  /\ Cardinality(ActiveJobs) < MAX_CONCURRENT_EMAIL_SCRAPING
  /\ LET available_stores ==
          SelectSeq(GetStoresWithUrlsNoEmails(MAX_CONCURRENT_EMAIL_SCRAPING * 2),
                    IsAvailable)
     IN /\ available_stores # <<>>
        /\ job_store' = [job_store EXCEPT ![t] = Head(available_stores)]
  /\ job_pc' = [job_pc EXCEPT ![t] = "crawling"]
  /\ UNCHANGED <<urlVars, emails_found, job_result, current_status, crawlVars, restVars>>

\* What scrape_emails_for_store hands to update_store_emails: some emails,
\* no email, or no email and a scraping_error.
CrawlResults ==
  {[emails |-> 1, scraping_error |-> FALSE],
   [emails |-> 0, scraping_error |-> FALSE],
   [emails |-> 0, scraping_error |-> TRUE]}

\* update_store_emails, first statement: SELECT status FROM stores.
UpdateStoreEmailsSelect(t, r) ==
  /\ job_pc[t] = "crawling"
  /\ job_result' = [job_result EXCEPT ![t] = r]
  /\ current_status' = [current_status EXCEPT ![t] = status[job_store[t]]]
  /\ job_pc' = [job_pc EXCEPT ![t] = "update"]
  /\ UNCHANGED <<urlVars, emails_found, job_store, crawlVars, restVars>>

\* update_store_emails, second statement and commit: UPDATE stores. What
\* the statement does to the table and the job.
UpdateStoreEmailsCommit(t) ==
  /\ job_pc[t] = "update"
  /\ WriteStatus(job_store[t],
                 EmailScraperStatus(current_status[t], status[job_store[t]],
                                    job_result[t].emails,
                                    job_result[t].scraping_error))
  /\ emails_found' = [emails_found EXCEPT ![job_store[t]] = job_result[t].emails]
  /\ job_pc' = [job_pc EXCEPT ![t] = "done"]
  /\ UNCHANGED <<base_url, url_finding_attempts, rowlock, pc, cur, batch,
                 cycle_count>>
  /\ UNCHANGED <<job_store, job_result, current_status, crawlVars>>

UpdateStoreEmailsWrite(t) ==
  /\ UpdateStoreEmailsCommit(t)
  /\ UNCHANGED restVars

\* scrape_emails_for_store, finally: the store leaves the active set.
FinishJob(t) ==
  /\ job_pc[t] = "done"
  /\ job_pc' = [job_pc EXCEPT ![t] = "idle"]
  /\ job_store' = [job_store EXCEPT ![t] = NoStore]
  /\ job_result' = [job_result EXCEPT ![t] = [emails |-> 0, scraping_error |-> FALSE]]
  /\ current_status' = [current_status EXCEPT ![t] = "none"]
  /\ UNCHANGED <<urlVars, emails_found, crawlVars, restVars>>

\* Database.mark_email_scraping_failed: one UPDATE by id.
MarkEmailScrapingFailed(s) ==
  /\ WriteStatus(s, "email_scraping_failed")
  /\ cooldown_elapsed' = [cooldown_elapsed EXCEPT ![s] = FALSE]
  /\ UNCHANGED <<base_url, url_finding_attempts, rowlock, pc, cur, batch,
                 cycle_count>>
  /\ UNCHANGED <<emailVars, crawlVars, schedVars, failed_crawls, resolveVars,
                 extVars>>

\* Database.mark_email_scraping_permanent_failure: one UPDATE by id.
MarkEmailScrapingPermanentFailure(s) ==
  /\ WriteStatus(s, "email_scraping_permanent_failure")
  /\ UNCHANGED <<base_url, url_finding_attempts, rowlock, pc, cur, batch,
                 cycle_count>>
  /\ UNCHANGED nonUrlVars

\* The table as the email-scraper finds it: every store has its URL.
InitEmailDb ==
  /\ status = [s \in Stores |-> "url_verified"]
  /\ base_url = [s \in Stores |-> "url"]
  /\ age = [s \in Stores |-> 0]
  /\ url_finding_attempts = [s \in Stores |-> 0]
  /\ rowlock = [s \in Stores |-> NoProc]
  /\ pc = [p \in Procs |-> "idle"]
  /\ cur = [p \in Procs |-> NoStore]
  /\ batch = [p \in Procs |-> <<>>]
  /\ cycle_count = [p \in Workers |-> 0]
  /\ winners = [s \in Stores |-> {}]
  /\ InitEmailVars
  /\ InitCrawlVars
  /\ InitRestVars

NextEmailDb ==
  \/ \E t \in Threads : StartNextEmailScrapingJob(t)
  \/ \E t \in Threads, r \in CrawlResults : UpdateStoreEmailsSelect(t, r)
  \/ \E t \in Threads : UpdateStoreEmailsWrite(t)
  \/ \E t \in Threads : FinishJob(t)
  \/ \E s \in Stores : MarkEmailScrapingFailed(s)
  \/ \E s \in Stores : MarkEmailScrapingPermanentFailure(s)
  \/ \E s \in Stores, n \in EmailCounts : UpdateStoreEmailsManual(s, n)
  \/ \E s \in Stores : UpdateStoreUrl(s)

SpecEmailDb == InitEmailDb /\ [][NextEmailDb]_vars

(* ----------------------- claims: status of emails ---------------------- *)

\* C4 (status monotonicity, email-scraper). An update_store_emails call that
\* finds the store in email_scraping_permanent_failure leaves the status
\* as it is, whatever its emails and scraping_error, and stores the emails.
C4_PermanentFailureKept ==
  [][\A t \in Threads :
       (/\ job_pc[t] = "update" /\ job_pc'[t] = "done"
        /\ current_status[t] = "email_scraping_permanent_failure")
         => /\ status'[job_store[t]] = status[job_store[t]]
            /\ emails_found'[job_store[t]] = job_result[t].emails]_vars

\* C4 witness: a call found the store permanently failed, has written its
\* emails, and the store is still permanently failed.
C4_Witness ==
  \E t \in Threads :
    /\ job_pc[t] = "done"
    /\ current_status[t] = "email_scraping_permanent_failure"
    /\ job_result[t].emails > 0
    /\ emails_found[job_store[t]] = job_result[t].emails
    /\ status[job_store[t]] = "email_scraping_permanent_failure"

\* C5 (status authoritative under races). Once the permanent-failure write
\* has committed, the UPDATE of a concurrent update_store_emails call does
\* not change the status to emails_found, no_emails_found or url_verified.
C5_FailureWriteWins ==
  [][\A t \in Threads :
       (/\ job_pc[t] = "update" /\ job_pc'[t] = "done"
        /\ status[job_store[t]] = "email_scraping_permanent_failure")
         => status'[job_store[t]]
              \notin {"emails_found", "no_emails_found", "url_verified"}]_vars

\* C6 (status monotonicity, url-finder). The url-finder's
\* update_store_emails, called by PUT /api/stores/<id>/emails on a store in
\* email_scraping_permanent_failure, does not change the status.
C6_ManualUpdateKeepsFailure ==
  [][\A s \in Stores, n \in EmailCounts :
       (status[s] = "email_scraping_permanent_failure"
        /\ UpdateStoreEmailsManual(s, n))
         => status'[s] = "email_scraping_permanent_failure"]_vars

(* --------------- email-scraper: modules/email_scraper.py --------------- *)

\* The Retry-After values of a 429 response, in milliseconds: 0 for a
\* missing header or "0" (both falsy in _handle_rate_limit), one second,
\* two minutes.
RetryAfterValues == {0, 1000, 120000}

Responses == {"ok", "not_found", "rate_limited", "error"}

\* min(delay * 2.0 ** n, max_delay) for a positive delay, doubling n times
\* and stopping at the cap.
RECURSIVE Backoff(_, _)
Backoff(delay, n) ==
  IF n = 0 \/ delay >= MAX_DELAY_MS THEN Min(delay, MAX_DELAY_MS)
  ELSE Backoff(2 * delay, n - 1)

\* The wait of _handle_rate_limit without the min(..., max_delay) caps.
RateLimitWait_Uncapped(delay, n, retry_after) ==
  IF retry_after # 0 THEN retry_after ELSE delay * 2^n

\* _handle_rate_limit: wait_time, for the count already incremented.
RateLimitWait(delay, n, retry_after) ==
  IF retry_after # 0 THEN Min(retry_after, MAX_DELAY_MS)
  ELSE Backoff(delay, n)

\* _handle_rate_limit
HandleRateLimit(retry_after) ==
  LET n == consecutive_429_count + 1
      w == RateLimitWait(current_delay, n, retry_after)
  IN /\ consecutive_429_count' = n
     /\ wait_time' = w
     /\ current_delay' = Min(w, MAX_DELAY_MS)
     /\ circuit_open' = (circuit_open \/ n >= max_consecutive_429)

\* current_delay * 0.9, in whole milliseconds.
Decay(delay) == (delay * 9) \div 10

\* _reset_rate_limit_tracking, and the same without the decay.
ResetRateLimitTracking_KeepsDelay ==
  /\ consecutive_429_count' = 0
  /\ circuit_open' = FALSE
  /\ UNCHANGED <<current_delay, wait_time>>
ResetRateLimitTracking ==
  /\ consecutive_429_count' = 0
  /\ circuit_open' = FALSE
  /\ current_delay' = IF current_delay > BASE_DELAY_MS
                      THEN Max(BASE_DELAY_MS, Decay(current_delay))
                      ELSE current_delay
  /\ UNCHANGED wait_time

\* discover_pages calls get_page for the sitemap, the homepage and the
\* high-value pages.
DiscoveryFetches == 2 + NumHighValue

\* scrape_emails: a job of the pool starts a crawl session.
StartSessionCommit(t) ==
  /\ crawl_pc[t] = "idle"
  /\ crawl_pc' = [crawl_pc EXCEPT ![t] = "get_page"]
  /\ phase' = [phase EXCEPT ![t] = "discovery"]
  /\ page_index' = [page_index EXCEPT ![t] = 0]
  /\ opened' = [opened EXCEPT ![t] = FALSE]
  /\ UNCHANGED <<urlVars, emailVars, othersOfStats, scraperVars, attempt>>

StartSession(t) == StartSessionCommit(t) /\ UNCHANGED statsVars

\* get_page, before the attempts: an open breaker is waited out and closed.
GetPageEnterCommit(t) ==
  /\ crawl_pc[t] = "get_page"
  /\ circuit_open' = FALSE
  /\ attempt' = [attempt EXCEPT ![t] = 0]
  /\ crawl_pc' = [crawl_pc EXCEPT ![t] = "attempt"]
  /\ UNCHANGED <<urlVars, emailVars, othersOfStats, current_delay,
                 consecutive_429_count, wait_time, phase, page_index, opened>>

GetPageEnter(t) == GetPageEnterCommit(t) /\ UNCHANGED statsVars

\* get_page returns to its caller.
Return(t) ==
  /\ crawl_pc' = [crawl_pc EXCEPT ![t] = "returned"]
  /\ attempt' = [attempt EXCEPT ![t] = 0]

\* "for attempt in range(self.max_retries)", "if attempt <
\* self.max_retries - 1": another attempt follows attempt a.
MoreAttempts_Always(a) == TRUE
MoreAttempts(a) == a + 1 < max_retries

\* get_page: one session.get and the handling of its response.
AttemptCommit(t, response, retry_after) ==
  /\ crawl_pc[t] = "attempt"
  /\ \/ /\ response \in {"ok", "not_found"}
        /\ ResetRateLimitTracking
        /\ Return(t)
        /\ UNCHANGED opened
     \/ /\ response = "rate_limited"
        /\ HandleRateLimit(retry_after)
        /\ IF circuit_open'
           THEN Return(t) /\ opened' = [opened EXCEPT ![t] = TRUE]
           ELSE /\ IF MoreAttempts(attempt[t])
                   THEN /\ attempt' = [attempt EXCEPT ![t] = @ + 1]
                        /\ UNCHANGED crawl_pc
                   ELSE Return(t)
                /\ UNCHANGED opened
     \/ /\ response = "error"
        /\ IF MoreAttempts(attempt[t])
           THEN /\ attempt' = [attempt EXCEPT ![t] = @ + 1]
                /\ UNCHANGED crawl_pc
           ELSE Return(t)
        /\ UNCHANGED <<scraperVars, opened>>
  /\ UNCHANGED <<urlVars, emailVars, othersOfStats, phase, page_index>>

Attempt(t, response, retry_after) ==
  AttemptCommit(t, response, retry_after) /\ UNCHANGED statsVars

\* After a get_page of discover_pages: the next one, or the end of the
\* discovery, where scrape_emails resets the rate limiting and enters its
\* loop over the page_queue.
AfterDiscoveryFetchCommit(t) ==
  /\ crawl_pc[t] = "returned"
  /\ phase[t] = "discovery"
  /\ IF page_index[t] + 1 < DiscoveryFetches
     THEN /\ page_index' = [page_index EXCEPT ![t] = @ + 1]
          /\ crawl_pc' = [crawl_pc EXCEPT ![t] = "get_page"]
          /\ UNCHANGED <<scraperVars, phase>>
     ELSE /\ current_delay' = BASE_DELAY_MS
          /\ consecutive_429_count' = 0
          /\ circuit_open' = FALSE
          /\ phase' = [phase EXCEPT ![t] = "scrape"]
          /\ page_index' = [page_index EXCEPT ![t] = 0]
          /\ crawl_pc' = [crawl_pc EXCEPT ![t] = "loop"]
          /\ UNCHANGED wait_time
  /\ UNCHANGED <<urlVars, emailVars, othersOfStats, attempt, opened>>

AfterDiscoveryFetch(t) == AfterDiscoveryFetchCommit(t) /\ UNCHANGED statsVars

\* After scrape_page in the loop of scrape_emails: on to the next page.
AfterScrapePageCommit(t) ==
  /\ crawl_pc[t] = "returned"
  /\ phase[t] = "scrape"
  /\ page_index' = [page_index EXCEPT ![t] = @ + 1]
  /\ crawl_pc' = [crawl_pc EXCEPT ![t] = "loop"]
  /\ UNCHANGED <<urlVars, emailVars, othersOfStats, scraperVars, phase, attempt,
                 opened>>

AfterScrapePage(t) == AfterScrapePageCommit(t) /\ UNCHANGED statsVars

\* Top of the loop of scrape_emails over a page_queue of n pages: the
\* queue is exhausted, or the breaker is open (break), or the page is
\* scraped.
LoopHeadCommit(t, n) ==
  /\ crawl_pc[t] = "loop"
  /\ IF page_index[t] >= n \/ circuit_open
     THEN /\ crawl_pc' = [crawl_pc EXCEPT ![t] = "idle"]
          /\ phase' = [phase EXCEPT ![t] = "discovery"]
          /\ page_index' = [page_index EXCEPT ![t] = 0]
     ELSE /\ crawl_pc' = [crawl_pc EXCEPT ![t] = "get_page"]
          /\ UNCHANGED <<phase, page_index>>
  /\ UNCHANGED <<urlVars, emailVars, othersOfStats, scraperVars, attempt,
                 opened>>

LoopHead(t) == LoopHeadCommit(t, NumPages) /\ UNCHANGED statsVars

InitCrawl == InitUrlVars /\ InitEmailVars /\ InitCrawlVars /\ InitRestVars

NextCrawl ==
  \/ \E t \in Threads : StartSession(t)
  \/ \E t \in Threads : GetPageEnter(t)
  \/ \E t \in Threads, r \in Responses \ {"rate_limited"} : Attempt(t, r, 0)
  \/ \E t \in Threads, ra \in RetryAfterValues :
       Attempt(t, "rate_limited", ra)
  \/ \E t \in Threads : AfterDiscoveryFetch(t)
  \/ \E t \in Threads : AfterScrapePage(t)
  \/ \E t \in Threads : LoopHead(t)

SpecCrawl == InitCrawl /\ [][NextCrawl]_vars

(* ------------------------ claims: crawl sessions ----------------------- *)

\* C8 (circuit breaker). Once the breaker has opened in a crawl session
\* (discovery included), that session attempts no further HTTP fetch.
C8_NoFetchAfterBreakerOpens ==
  [][\A t \in Threads :
       (crawl_pc[t] = "attempt"
        /\ (crawl_pc'[t] # "attempt" \/ attempt'[t] # attempt[t]))
         => ~opened[t]]_vars

\* C9 (backoff bound). Every wait computed by _handle_rate_limit and the
\* current_delay are at most max_delay, whatever the responses, the
\* Retry-After values and the count of consecutive 429s.
C9_DelayAtMostMax ==
  /\ wait_time <= MAX_DELAY_MS
  /\ current_delay <= MAX_DELAY_MS

\* C9 witness: the 429s went on past the breaker's threshold and both the
\* wait and the delay sit at the cap.
C9_Witness ==
  /\ consecutive_429_count > max_consecutive_429
  /\ wait_time = MAX_DELAY_MS
  /\ current_delay = MAX_DELAY_MS

\* C10 (session isolation). While a crawl session runs, a step of another
\* thread's session leaves the rate-limit state the session sees
\* (current_delay, consecutive_429_count, circuit_open) unchanged.
C10_SessionOwnsRateLimitState ==
  [][\A t \in Threads :
       (/\ crawl_pc[t] # "idle"
        /\ UNCHANGED <<crawl_pc[t], phase[t], page_index[t], attempt[t]>>)
         => UNCHANGED <<current_delay, consecutive_429_count, circuit_open>>]_vars

(* --------- email-scraper app.py: the admission of crawl jobs ----------- *)

\* get_stores_with_urls_no_emails(limit, app_name): the pending rows of
\* the app (of every app without app_name), ORDER BY id; "if limit:" adds
\* the LIMIT clause for a limit other than 0.
PendingStores(limit, app_name) ==
  LET rows == SortedSeq({s \in pending_rows :
                           app_name = NoApp \/ AppOf(s) = app_name})
  IN IF limit = 0 THEN rows ELSE Take(rows, limit)

\* A call of start_next_email_scraping_job(app_name) begins: by the
\* endpoint /api/email-scraping/start-next-job.
StartNextJobEndpoint(c, app_name) ==
  /\ call_pc[c] = "idle"
  /\ call_pc' = [call_pc EXCEPT ![c] = "next_enter"]
  /\ call_app' = [call_app EXCEPT ![c] = app_name]
  /\ after_completion' = [after_completion EXCEPT ![c] = FALSE]
  /\ UNCHANGED <<active_email_scraping_jobs, pending_rows,
                 active_store_ids_set, stores_to_process>>
  /\ UNCHANGED <<urlVars, emailVars, crawlVars, retryVars, resolveVars,
                 extVars>>

\* scrape_emails_for_store, from update_store_emails to the finally block:
\* the crawl of store s ends, its row stops being pending when emails or
\* no_emails_found were stored (stored) and stays pending after a
\* scraping_error; the store is discarded from the active set and
\* start_next_email_scraping_job() is called without app_name.
FinishScrapeEmailsForStore(c, s, stored) ==
  /\ call_pc[c] = "idle"
  /\ s \in active_email_scraping_jobs
  /\ pending_rows' = IF stored THEN pending_rows \ {s} ELSE pending_rows
  /\ active_email_scraping_jobs' = active_email_scraping_jobs \ {s}
  /\ call_pc' = [call_pc EXCEPT ![c] = "next_enter"]
  /\ call_app' = [call_app EXCEPT ![c] = NoApp]
  /\ after_completion' = [after_completion EXCEPT ![c] = TRUE]
  /\ UNCHANGED <<active_store_ids_set, stores_to_process>>
  /\ UNCHANGED <<urlVars, emailVars, crawlVars, retryVars, resolveVars,
                 extVars>>

\* The call returns.
ReturnFromCall(c) ==
  /\ call_pc' = [call_pc EXCEPT ![c] = "idle"]
  /\ call_app' = [call_app EXCEPT ![c] = NoApp]
  /\ active_store_ids_set' = [active_store_ids_set EXCEPT ![c] = {}]
  /\ stores_to_process' = [stores_to_process EXCEPT ![c] = <<>>]
  /\ after_completion' = [after_completion EXCEPT ![c] = FALSE]

\* start_next_email_scraping_job, first "with email_scraping_lock": return
\* None at capacity, else copy the active set.
StartNextSnapshot(c) ==
  /\ call_pc[c] = "next_enter"
  /\ IF Cardinality(active_email_scraping_jobs) >= MAX_CONCURRENT_EMAIL_SCRAPING
     THEN ReturnFromCall(c)
     ELSE /\ active_store_ids_set' =
               [active_store_ids_set EXCEPT ![c] = active_email_scraping_jobs]
          /\ call_pc' = [call_pc EXCEPT ![c] = "next_query"]
          /\ UNCHANGED <<call_app, stores_to_process, after_completion>>
  /\ UNCHANGED <<active_email_scraping_jobs, pending_rows>>
  /\ UNCHANGED <<urlVars, emailVars, crawlVars, retryVars, resolveVars,
                 extVars>>

\* start_next_email_scraping_job, outside the lock: the query, the filter
\* by the snapshot, and the choice of available_stores[0].
StartNextQuery(c) ==
  /\ call_pc[c] = "next_query"
  /\ LET pending_stores ==
           PendingStores(MAX_CONCURRENT_EMAIL_SCRAPING * 2, call_app[c])
         available_stores ==
           SelectSeq(pending_stores,
                     LAMBDA s : s \notin active_store_ids_set[c])
     IN IF available_stores = <<>>
        THEN ReturnFromCall(c)
        ELSE /\ stores_to_process' =
                  [stores_to_process EXCEPT ![c] = <<Head(available_stores)>>]
             /\ call_pc' = [call_pc EXCEPT ![c] = "next_add"]
             /\ UNCHANGED <<call_app, active_store_ids_set, after_completion>>
  /\ UNCHANGED <<active_email_scraping_jobs, pending_rows>>
  /\ UNCHANGED <<urlVars, emailVars, crawlVars, retryVars, resolveVars,
                 extVars>>

\* start_next_email_scraping_job, second "with email_scraping_lock": return
\* None when the store is active by now, else add it; the job is submitted
\* to the executor.
StartNextAdd(c) ==
  /\ call_pc[c] = "next_add"
  /\ LET store_id == Head(stores_to_process[c])
     IN active_email_scraping_jobs' =
          IF store_id \in active_email_scraping_jobs
          THEN active_email_scraping_jobs
          ELSE active_email_scraping_jobs \cup {store_id}
  /\ ReturnFromCall(c)
  /\ UNCHANGED pending_rows
  /\ UNCHANGED <<urlVars, emailVars, crawlVars, retryVars, resolveVars,
                 extVars>>

\* start_batch_email_scraping, "with email_scraping_lock": active_count and
\* the copy of the active set.
StartBatchSnapshot(c, app_name) ==
  /\ call_pc[c] = "idle"
  /\ call_pc' = [call_pc EXCEPT ![c] = "batch_query"]
  /\ call_app' = [call_app EXCEPT ![c] = app_name]
  /\ active_store_ids_set' =
       [active_store_ids_set EXCEPT ![c] = active_email_scraping_jobs]
  /\ after_completion' = [after_completion EXCEPT ![c] = FALSE]
  /\ UNCHANGED <<active_email_scraping_jobs, pending_rows, stores_to_process>>
  /\ UNCHANGED <<urlVars, emailVars, crawlVars, retryVars, resolveVars,
                 extVars>>

\* start_batch_email_scraping, from the query to stores_to_process. A
\* negative LIMIT is an error of the query: the request fails.
StartBatchQuery(c) ==
  /\ call_pc[c] = "batch_query"
  /\ LET active_count == Cardinality(active_store_ids_set[c])
         limit == Min(MAX_CONCURRENT_EMAIL_SCRAPING - active_count,
                      MAX_CONCURRENT_EMAIL_SCRAPING) * 2
         pending_stores == IF limit < 0 THEN <<>>
                           ELSE PendingStores(limit, call_app[c])
         truly_pending ==
           SelectSeq(pending_stores,
                     LAMBDA s : s \notin active_store_ids_set[c])
         jobs_to_start == Min(MAX_CONCURRENT_EMAIL_SCRAPING - active_count,
                              Len(truly_pending))
     IN IF truly_pending = <<>> \/ jobs_to_start <= 0
        THEN ReturnFromCall(c)
        ELSE /\ stores_to_process' =
                  [stores_to_process EXCEPT ![c] = Take(truly_pending, jobs_to_start)]
             /\ call_pc' = [call_pc EXCEPT ![c] = "batch_loop"]
             /\ UNCHANGED <<call_app, active_store_ids_set, after_completion>>
  /\ UNCHANGED <<active_email_scraping_jobs, pending_rows>>
  /\ UNCHANGED <<urlVars, emailVars, crawlVars, retryVars, resolveVars,
                 extVars>>

\* start_batch_email_scraping, one turn of "for store in stores_to_process":
\* skip the store when it is active, else add it and submit its job.
StartBatchLoop(c) ==
  /\ call_pc[c] = "batch_loop"
  /\ LET store_id == Head(stores_to_process[c])
     IN active_email_scraping_jobs' =
          IF store_id \in active_email_scraping_jobs
          THEN active_email_scraping_jobs
          ELSE active_email_scraping_jobs \cup {store_id}
  /\ IF Len(stores_to_process[c]) = 1
     THEN ReturnFromCall(c)
     ELSE /\ stores_to_process' =
               [stores_to_process EXCEPT ![c] = Tail(stores_to_process[c])]
          /\ UNCHANGED <<call_pc, call_app, active_store_ids_set,
                         after_completion>>
  /\ UNCHANGED pending_rows
  /\ UNCHANGED <<urlVars, emailVars, crawlVars, retryVars, resolveVars,
                 extVars>>

InitSched == InitUrlVars /\ InitEmailVars /\ InitCrawlVars /\ InitRestVars

NextSched ==
  \/ \E c \in Callers, a \in Apps \cup {NoApp} : StartNextJobEndpoint(c, a)
  \/ \E c \in Callers, s \in SchedStores, stored \in BOOLEAN :
       FinishScrapeEmailsForStore(c, s, stored)
  \/ \E c \in Callers : StartNextSnapshot(c)
  \/ \E c \in Callers : StartNextQuery(c)
  \/ \E c \in Callers : StartNextAdd(c)
  \/ \E c \in Callers, a \in Apps \cup {NoApp} : StartBatchSnapshot(c, a)
  \/ \E c \in Callers : StartBatchQuery(c)
  \/ \E c \in Callers : StartBatchLoop(c)

SpecSched == InitSched /\ [][NextSched]_vars

(* --------------------- claims about the admission ---------------------- *)

\* C11: under any interleaving of start_next_email_scraping_job calls,
\* batch-start requests and job completions, the number of stores in
\* active_email_scraping_jobs never exceeds MAX_CONCURRENT_EMAIL_SCRAPING.
C11_ConcurrencyCeiling ==
  Cardinality(active_email_scraping_jobs) <= MAX_CONCURRENT_EMAIL_SCRAPING

\* The stores an admission attempt without app_name could admit.
Admissible ==
  {s \in pending_rows : s \notin active_email_scraping_jobs}

\* C12: the admission attempt that follows the completion of a job admits
\* a crawl if an eligible store is not active and the active count is
\* below the ceiling: it does not return without admitting while, at its
\* return, such a store and a free slot are there.
C12_CompletionAdmitsNext ==
  [][\A c \in Callers :
       (/\ after_completion[c]
        /\ call_pc[c] \in {"next_enter", "next_query", "next_add"}
        /\ call_pc'[c] = "idle"
        /\ active_email_scraping_jobs' = active_email_scraping_jobs)
       => ~(/\ Admissible # {}
            /\ Cardinality(active_email_scraping_jobs)
                 < MAX_CONCURRENT_EMAIL_SCRAPING)]_vars

(* ------------- email-scraper: failed crawls and their retry ------------ *)

\* update_store_emails' UPDATE, with the history of the store's crawls:
\* a crawl that ends with a scraping_error is a failed crawl.
UpdateStoreEmailsCounted(t) ==
  /\ UpdateStoreEmailsCommit(t)
  /\ failed_crawls' =
       [failed_crawls EXCEPT ![job_store[t]] =
          IF job_result[t].scraping_error
          THEN Min(@ + 1, EMAIL_SCRAPING_MAX_RETRIES)
          ELSE 0]
  /\ UNCHANGED <<schedVars, cooldown_elapsed, resolveVars, extVars>>

\* Time passes: email_scraping_failed_at + cooldown is now in the past.
CooldownElapses(s) ==
  /\ status[s] = "email_scraping_failed"
  /\ ~cooldown_elapsed[s]
  /\ cooldown_elapsed' = [cooldown_elapsed EXCEPT ![s] = TRUE]
  /\ UNCHANGED <<urlVars, emailVars, crawlVars, schedVars, failed_crawls,
                 resolveVars, extVars>>

InitRetry == InitEmailDb

NextRetry ==
  \/ \E t \in Threads : StartNextEmailScrapingJob(t)
  \/ \E t \in Threads, r \in CrawlResults : UpdateStoreEmailsSelect(t, r)
  \/ \E t \in Threads : UpdateStoreEmailsCounted(t)
  \/ \E t \in Threads : FinishJob(t)
  \/ \E s \in Stores : MarkEmailScrapingFailed(s)
  \/ \E s \in Stores : CooldownElapses(s)

SpecRetry == InitRetry /\ [][NextRetry]_vars

(* ------------------- claims about the crawl's outcome ------------------ *)

\* C13: when the crawl of a url_verified store could not proceed at all
\* (it ends with a scraping_error and no email), the write of its result
\* leaves the store in email_scraping_failed.
C13_TotalFailureIsRetryable ==
  [][\A t \in Threads :
       (/\ UpdateStoreEmailsWrite(t)
        /\ job_result[t].scraping_error
        /\ current_status[t] = "url_verified"
        /\ status[job_store[t]] = "url_verified")
       => status'[job_store[t]] = "email_scraping_failed"]_vars

\* C14: a store whose crawl has failed EMAIL_SCRAPING_MAX_RETRIES times in
\* a row is not admitted for a crawl again.
C14_BoundedRetries ==
  [][\A t \in Threads :
       StartNextEmailScrapingJob(t)
       => failed_crawls[job_store'[t]] < EMAIL_SCRAPING_MAX_RETRIES]_vars

\* C15: a store in email_scraping_failed whose cooldown has passed, with
\* its URL and no crawl running, is among the rows the admission selects.
C15_EligibleAfterCooldown ==
  \A s \in Stores :
    (/\ status[s] = "email_scraping_failed"
     /\ cooldown_elapsed[s]
     /\ base_url[s] # ""
     /\ s \notin ActiveJobs)
    => \E i \in 1..Len(GetStoresWithUrlsNoEmails(MAX_CONCURRENT_EMAIL_SCRAPING * 2)) :
         GetStoresWithUrlsNoEmails(MAX_CONCURRENT_EMAIL_SCRAPING * 2)[i] = s

\* C16: the write of the result of a crawl that fetched a page (no
\* scraping_error), for a store read as url_verified or as
\* email_scraping_failed, leaves emails_found when emails were accepted
\* and no_emails_found when none was.
C16_OutcomeFollowsEmails ==
  [][\A t \in Threads :
       (/\ UpdateStoreEmailsWrite(t)
        /\ ~job_result[t].scraping_error
        /\ current_status[t] \in {"url_verified", "email_scraping_failed"}
        /\ status[job_store[t]] = current_status[t])
       => status'[job_store[t]] =
            IF job_result[t].emails > 0 THEN "emails_found"
            ELSE "no_emails_found"]_vars

(* ------- url-finder: the decision on a resolver's result (worker ------- *)
(* ------- process_store and the API's process_and_save_url) ------------- *)

\* The confidences a resolver returns, in hundredths: None, 0, and values
\* on both sides of the two thresholds before and after the penalty.
Confidences == {NoConfidence, 0, 5, 49, 50, 59, 69, 70, 79, 80}

\* What the validation block finds: validation off (no URL is checked);
\* the primary URL valid (no alternative is tried); the primary URL
\* invalid and an alternative valid; every URL tried invalid.
ValidationOutcomes ==
  {[validating |-> FALSE, primary_valid |-> FALSE, alternative_valid |-> FALSE],
   [validating |-> TRUE, primary_valid |-> TRUE, alternative_valid |-> FALSE],
   [validating |-> TRUE, primary_valid |-> FALSE, alternative_valid |-> TRUE],
   [validating |-> TRUE, primary_valid |-> FALSE, alternative_valid |-> FALSE]}

\* Python's truth value of confidence: None and 0.0 are false.
Truthy(confidence) == confidence # NoConfidence /\ confidence # 0

\* A strict comparison in place of ">=".
ShouldAutoSave_Strict(confidence, threshold) ==
  confidence # NoConfidence /\ confidence > threshold

\* BackgroundWorker.should_auto_save.
ShouldAutoSave(confidence, threshold) ==
  confidence # NoConfidence /\ confidence >= threshold

\* Validation is on, the primary URL failed it and one of the first five
\* candidates, other than the primary URL, passed it.
AlternativeAccepted(validating, primary_valid, alternative_valid) ==
  validating /\ ~primary_valid /\ alternative_valid

\* validation_error is set at the end of the validation block: the primary
\* URL and every alternative tried failed.
ValidationFailed(validating, primary_valid, alternative_valid) ==
  validating /\ ~primary_valid /\ ~alternative_valid

\* validated_url after the validation block.
ValidatedUrl(validating, primary_valid, alternative_valid) ==
  IF AlternativeAccepted(validating, primary_valid, alternative_valid)
  THEN "alternative" ELSE "primary"

\* The confidence left as the resolver gave it.
FinalConfidence_NoPenalty(confidence, validating, primary_valid, alternative_valid) ==
  confidence

\* confidence after the validation block: "if confidence: confidence =
\* max(0.0, confidence - 0.1)" for an accepted alternative.
FinalConfidence(confidence, validating, primary_valid, alternative_valid) ==
  IF /\ AlternativeAccepted(validating, primary_valid, alternative_valid)
     /\ Truthy(confidence)
  THEN Max(0, confidence - ALTERNATIVE_PENALTY)
  ELSE confidence

\* BackgroundWorker.process_store from the validation on: the 'action' it
\* takes for a result that has a URL.
WorkerAction(confidence, validating, primary_valid, alternative_valid) ==
  LET final == FinalConfidence(confidence, validating, primary_valid,
                               alternative_valid)
  IN IF ValidationFailed(validating, primary_valid, alternative_valid)
     THEN IF ShouldAutoSave(confidence, AUTO_SAVE_THRESHOLD)
          THEN "needs_review" ELSE "not_found"
     ELSE IF ShouldAutoSave(final, AUTO_SAVE_THRESHOLD) THEN "saved"
     ELSE IF final # NoConfidence /\ final >= LOW_CONFIDENCE_THRESHOLD
          THEN "needs_review"
     ELSE IF ValidatedUrl(validating, primary_valid, alternative_valid) # "primary"
          THEN "needs_review"
     ELSE "not_found"

\* process_and_save_url of app.py. Its last branch formats the message
\* with f"{confidence:.2% if confidence else 'unknown'}", which raises
\* (ValueError for a float, TypeError for None) before
\* mark_store_not_found is called.
ApiAction(confidence, validating, primary_valid, alternative_valid) ==
  LET final == FinalConfidence(confidence, validating, primary_valid,
                               alternative_valid)
  IN IF ValidationFailed(validating, primary_valid, alternative_valid)
     THEN IF Truthy(confidence) /\ confidence >= AUTO_SAVE_THRESHOLD
          THEN "needs_review" ELSE "not_found"
     ELSE IF Truthy(final) /\ final >= AUTO_SAVE_THRESHOLD THEN "saved"
     ELSE IF Truthy(final) /\ final >= LOW_CONFIDENCE_THRESHOLD
          THEN "needs_review"
     ELSE "raise"

\* The writes of an action: update_store_url (after clean_url) for
\* "saved", save_candidate_urls and mark_store_needs_review for
\* "needs_review", mark_store_not_found for "not_found", none when the
\* function raised; and the record of the run.
Decide(s, path, action, confidence, validating, primary_valid, alternative_valid) ==
  /\ CASE action = "saved" ->
            /\ WriteStatus(s, "url_verified")
            /\ base_url' = [base_url EXCEPT ![s] = "url"]
       [] action = "needs_review" ->
            /\ WriteStatus(s, "needs_review")
            /\ UNCHANGED base_url
       [] action = "not_found" ->
            /\ WriteStatus(s, "not_found")
            /\ UNCHANGED base_url
       [] OTHER ->
            UNCHANGED <<status, age, winners, base_url>>
  /\ last_result' = [last_result EXCEPT ![s] =
       [path |-> path, confidence |-> confidence, validating |-> validating,
        primary_valid |-> primary_valid,
        alternative_valid |-> alternative_valid,
        final_confidence |-> FinalConfidence(confidence, validating,
                                             primary_valid, alternative_valid),
        validated_url |-> ValidatedUrl(validating, primary_valid,
                                       alternative_valid),
        action |-> action,
        saved_url |-> IF action = "saved"
                      THEN ValidatedUrl(validating, primary_valid,
                                        alternative_valid)
                      ELSE "none",
        candidates_kept |-> action = "needs_review"]]

\* run_continuous: a pending store of the batch is locked
\* (lock_store_for_processing sets status 'processing').
ResolveLock(s) ==
  /\ resolve_pc[s] = "idle"
  /\ status[s] = "pending_url"
  /\ WriteStatus(s, "processing")
  /\ resolve_pc' = [resolve_pc EXCEPT ![s] = "locked"]
  /\ last_result' = [last_result EXCEPT ![s] = NoResult]
  /\ UNCHANGED <<base_url, url_finding_attempts, rowlock, pc, cur, batch,
                 cycle_count>>
  /\ UNCHANGED <<emailVars, crawlVars, schedVars, retryVars, extVars>>

\* process_store on a result with a URL.
ProcessStoreResult(s, confidence, validating, primary_valid, alternative_valid) ==
  /\ resolve_pc[s] = "locked"
  /\ Decide(s, "worker",
            WorkerAction(confidence, validating, primary_valid,
                         alternative_valid),
            confidence, validating, primary_valid, alternative_valid)
  /\ resolve_pc' = [resolve_pc EXCEPT ![s] = "processed"]
  /\ UNCHANGED <<url_finding_attempts, rowlock, pc, cur, batch, cycle_count>>
  /\ UNCHANGED <<emailVars, crawlVars, schedVars, retryVars, extVars>>

\* run_continuous, finally: unlock_store.
ResolveUnlock(s) ==
  /\ resolve_pc[s] = "processed"
  /\ rowlock[s] = NoProc
  /\ IF status[s] = "processing"
     THEN /\ status' = [status EXCEPT ![s] = UnlockStatus(status[s], base_url[s])]
          /\ age' = [age EXCEPT ![s] = 0]
          /\ winners' = [winners EXCEPT ![s] = {}]
     ELSE UNCHANGED <<status, age, winners>>
  /\ resolve_pc' = [resolve_pc EXCEPT ![s] = "idle"]
  /\ UNCHANGED <<base_url, url_finding_attempts, rowlock, pc, cur, batch,
                 cycle_count, last_result>>
  /\ UNCHANGED <<emailVars, crawlVars, schedVars, retryVars, extVars>>

\* POST /api/search/gemini (or perplexity) with a store_id:
\* process_and_save_url on the result; the endpoint takes no lock.
ProcessAndSaveUrl(s, confidence, validating, primary_valid, alternative_valid) ==
  /\ resolve_pc[s] = "idle"
  /\ Decide(s, "api",
            ApiAction(confidence, validating, primary_valid,
                      alternative_valid),
            confidence, validating, primary_valid, alternative_valid)
  /\ UNCHANGED <<url_finding_attempts, rowlock, pc, cur, batch, cycle_count,
                 resolve_pc>>
  /\ UNCHANGED <<emailVars, crawlVars, schedVars, retryVars, extVars>>

InitResolve == InitUrlVars /\ InitEmailVars /\ InitCrawlVars /\ InitRestVars

NextResolve ==
  \/ \E s \in Stores : ResolveLock(s)
  \/ \E s \in Stores, c \in Confidences, o \in ValidationOutcomes :
       ProcessStoreResult(s, c, o.validating, o.primary_valid,
                          o.alternative_valid)
  \/ \E s \in Stores : ResolveUnlock(s)
  \/ \E s \in Stores, c \in Confidences, o \in ValidationOutcomes :
       ProcessAndSaveUrl(s, c, o.validating, o.primary_valid,
                         o.alternative_valid)

SpecResolve == InitResolve /\ [][NextResolve]_vars

(* ------------------ claims about the resolver's result ----------------- *)

\* The store's last result has been decided on and written.
Decided(s) == last_result[s].path # "none"

\* C17: after a result whose confidence is in [LOW_CONFIDENCE_THRESHOLD,
\* AUTO_SAVE_THRESHOLD) has been processed the store is in needs_review,
\* whatever the validation gave.
C17_MidBandNeedsReview ==
  \A s \in Stores :
    (/\ Decided(s)
     /\ last_result[s].confidence >= LOW_CONFIDENCE_THRESHOLD
     /\ last_result[s].confidence < AUTO_SAVE_THRESHOLD)
    => status[s] = "needs_review"

\* The last result of s was a high-confidence miss: confidence at or above
\* AUTO_SAVE_THRESHOLD, validation failed for the primary URL and for
\* every alternative.
HighConfidenceMiss(s) ==
  /\ Decided(s)
  /\ last_result[s].confidence >= AUTO_SAVE_THRESHOLD
  /\ last_result[s].validating
  /\ ~last_result[s].primary_valid
  /\ ~last_result[s].alternative_valid

ClaimedFinalConfidence(s) ==
  IF last_result[s].validated_url = "alternative"
     /\ last_result[s].confidence > 0
  THEN Max(0, last_result[s].confidence - ALTERNATIVE_PENALTY)
  ELSE last_result[s].confidence

\* The URL named u passed validation in the last result of s.
PassedValidation(s, u) ==
  \/ u = "primary" /\ last_result[s].primary_valid
  \/ u = "alternative" /\ last_result[s].alternative_valid

C20_LowConfidenceNotFound ==
  \A s \in Stores :
    (/\ Decided(s)
     /\ ClaimedFinalConfidence(s) < LOW_CONFIDENCE_THRESHOLD)
    => status[s] = "not_found"


(* ------------ url-finder: background_worker.py, the resolvers ---------- *)

ProviderNames == {"gemini", "perplexity"}

\* The worker's configuration: PROVIDER_PRIORITY (config.py reads it from
\* the environment), whether __init__ built each provider (its API key is
\* set), selected_provider ("" for None) and the store process_store is
\* called for.
WorkerConfigs ==
  [priority : {<<"gemini", "perplexity">>, <<"perplexity", "gemini">>,
               <<"gemini">>, <<"perplexity">>},
   gemini : BOOLEAN, perplexity : BOOLEAN,
   selected_provider : {"", "gemini", "perplexity", "extension"},
   store : Stores]

\* self.gemini / self.perplexity is not None.
Built(config, name) ==
  IF name = "gemini" THEN config.gemini ELSE config.perplexity

\* providers_to_try: the selected provider alone when one is selected and
\* built, else the built providers in the order of PROVIDER_PRIORITY.
ProvidersToTry(config) ==
  IF config.selected_provider # ""
  THEN IF /\ config.selected_provider \in ProviderNames
          /\ Built(config, config.selected_provider)
       THEN <<config.selected_provider>>
       ELSE <<>>
  ELSE SelectSeq(config.priority, LAMBDA name : Built(config, name))

\* What provider.find_store_url of provider `name` may do: raise, or return
\* a dict with selected_url (None or a URL), confidence (None or a number,
\* here in hundredths) and results (a list of candidates, possibly empty).
\* Every URL carries the name of the provider that gave it.
ProviderResponses(name) ==
  [raises : {FALSE},
   selected_url : {NoUrl, [provider |-> name, kind |-> "selected"]},
   confidence : {NoConfidence, 0, 60},
   results : {<<>>, <<[provider |-> name, kind |-> "candidate"]>>}]
  \cup
  {[raises |-> TRUE, selected_url |-> NoUrl, confidence |-> NoConfidence,
    results |-> <<>>]}

\* "except Exception as e": the handler of the loop body catches what the
\* provider raises.
Caught_Never(response) == FALSE
Caught(response) == response.raises

\* The branch the loop body takes on a provider's answer:
\*   if selected_url and confidence is not None: return ...
\*   elif results: return ... results[0] ...
\*   else: last_error = ...; continue
ProviderOutcome_SelectedOnly(response) ==
  IF response.raises THEN "continue"
  ELSE IF response.selected_url # NoUrl /\ response.confidence # NoConfidence
       THEN "return_selected"
       ELSE "continue"
ProviderOutcome(response) ==
  IF response.raises THEN "continue"
  ELSE IF response.selected_url # NoUrl /\ response.confidence # NoConfidence
       THEN "return_selected"
       ELSE IF response.results # <<>> THEN "return_first"
            ELSE "continue"

\* The text last_error gets from a provider that did not end the loop.
ProviderError(call) ==
  IF call.response.raises
  THEN [kind |-> "error", provider |-> call.provider]
  ELSE [kind |-> "no_results", provider |-> call.provider]

\* last_error after the loop: every pass that did not return overwrote it.
LastError(calls) ==
  IF calls = <<>> THEN [kind |-> "unknown", provider |-> "none"]
  ELSE ProviderError(calls[Len(calls)])

\* The dict returned from inside the loop. "confidence or 0.0" turns a
\* missing (or zero) confidence into 0.0 in the results branch.
SuccessResult(name, response) ==
  IF ProviderOutcome(response) = "return_selected"
  THEN [success |-> TRUE, url |-> response.selected_url,
        confidence |-> response.confidence, provider |-> name,
        results |-> response.results, error |-> NoError]
  ELSE [success |-> TRUE, url |-> response.results[1],
        confidence |-> IF response.confidence = NoConfidence
                       THEN 0 ELSE response.confidence,
        provider |-> name, results |-> response.results,
        error |-> NoError]

FailureResult(provider, error) ==
  [success |-> FALSE, url |-> NoUrl, confidence |-> NoConfidence,
   provider |-> provider, results |-> <<>>, error |-> error]

\* process_store calls find_url_with_fallback, which builds
\* providers_to_try and returns at once when the selected provider is the
\* extension or when the list is empty.
FindUrlWithFallback ==
  /\ fallback_pc = "idle"
  /\ IF worker_config.selected_provider = "extension"
     THEN /\ fallback_pc' = "returned"
          /\ fallback_result' =
               FailureResult("extension",
                 [kind |-> "extension_unsupported", provider |-> "extension"])
     ELSE IF ProvidersToTry(worker_config) = <<>>
     THEN /\ fallback_pc' = "returned"
          /\ fallback_result' =
               IF worker_config.selected_provider # ""
               THEN FailureResult(worker_config.selected_provider,
                      [kind |-> "not_available",
                       provider |-> worker_config.selected_provider])
               ELSE FailureResult("none",
                      [kind |-> "none_configured", provider |-> "none"])
     ELSE /\ fallback_pc' = "loop"
          /\ UNCHANGED fallback_result
  /\ UNCHANGED <<worker_config, provider_calls, url_finding_error>>
  /\ UNCHANGED <<urlVars, othersOfFallback>>

\* One pass of "for provider_name, provider in providers_to_try": the call,
\* then a return or the next pass. An exception the handler does not catch
\* leaves find_url_with_fallback.
TryProvider(response) ==
  /\ fallback_pc = "loop"
  /\ Len(provider_calls) < Len(ProvidersToTry(worker_config))
  /\ LET name == ProvidersToTry(worker_config)[Len(provider_calls) + 1] IN
       /\ response \in ProviderResponses(name)
       /\ provider_calls' =
            Append(provider_calls, [provider |-> name, response |-> response])
       /\ IF response.raises /\ ~Caught(response)
          THEN fallback_pc' = "raised" /\ UNCHANGED fallback_result
          ELSE IF ProviderOutcome(response) = "continue"
          THEN UNCHANGED <<fallback_pc, fallback_result>>
          ELSE /\ fallback_pc' = "returned"
               /\ fallback_result' = SuccessResult(name, response)
  /\ UNCHANGED <<worker_config, url_finding_error>>
  /\ UNCHANGED <<urlVars, othersOfFallback>>

\* The loop ran out of providers: "All providers failed".
AllProvidersFailed ==
  /\ fallback_pc = "loop"
  /\ Len(provider_calls) = Len(ProvidersToTry(worker_config))
  /\ fallback_pc' = "returned"
  /\ fallback_result' = FailureResult("none", LastError(provider_calls))
  /\ UNCHANGED <<worker_config, provider_calls, url_finding_error>>
  /\ UNCHANGED <<urlVars, othersOfFallback>>

\* process_store on the returned dict: mark_store_not_found with the
\* result's error when success is false, and with 'No URL returned from
\* provider' when there is no url; else it goes on to validate the URL.
AfterFindUrl ==
  /\ fallback_pc = "returned"
  /\ LET s == worker_config.store IN
       IF ~fallback_result.success
       THEN /\ fallback_pc' = "not_found"
            /\ WriteStatus(s, "not_found")
            /\ url_finding_error' =
                 [url_finding_error EXCEPT ![s] = fallback_result.error]
       ELSE IF fallback_result.url = NoUrl
       THEN /\ fallback_pc' = "not_found"
            /\ WriteStatus(s, "not_found")
            /\ url_finding_error' =
                 [url_finding_error EXCEPT ![s] =
                    [kind |-> "no_url", provider |-> fallback_result.provider]]
       ELSE /\ fallback_pc' = "validate"
            /\ UNCHANGED <<status, age, winners, url_finding_error>>
  /\ UNCHANGED <<worker_config, provider_calls, fallback_result>>
  /\ UNCHANGED <<base_url, url_finding_attempts, rowlock, pc, cur, batch,
                 cycle_count>>
  /\ UNCHANGED othersOfFallback

InitFallback ==
  /\ InitUrlVars /\ InitEmailVars /\ InitCrawlVars /\ InitSchedRetryResolve
  /\ worker_config \in WorkerConfigs
  /\ fallback_pc = "idle"
  /\ provider_calls = <<>>
  /\ fallback_result = NoFallbackResult
  /\ url_finding_error = [s \in Stores |-> NoError]
  /\ InitLoopVars /\ InitStatsVars /\ InitJobVars /\ InitPureVars
  /\ InitContentVars /\ InitThreadVars /\ InitGeminiVars /\ InitNormVars /\ InitDiscoverVars

NextFallback ==
  \/ FindUrlWithFallback
  \/ \E name \in ProviderNames :
       \E response \in ProviderResponses(name) : TryProvider(response)
  \/ AllProvidersFailed
  \/ AfterFindUrl

SpecFallback == InitFallback /\ [][NextFallback]_vars

(* ----------------------- claims about the resolvers -------------------- *)

\* Position of a provider in PROVIDER_PRIORITY.
PriorityOf(name) ==
  CHOOSE i \in 1..Len(worker_config.priority) :
    worker_config.priority[i] = name

\* The resolver answered with a candidate list or with a selected URL.
Answered(response) ==
  /\ ~response.raises
  /\ response.results # <<>> \/ response.selected_url # NoUrl

\* The resolver answered with a candidate list, or with a selected URL
\* that has a confidence.
AnsweredWithConfidence(response) ==
  /\ ~response.raises
  /\ \/ response.results # <<>>
     \/ response.selected_url # NoUrl /\ response.confidence # NoConfidence

\* The URLs of one answer.
UrlsOf(response) ==
  ({response.selected_url}
     \cup {response.results[k] : k \in 1..Len(response.results)}) \ {NoUrl}

\* The resolvers are called in priority order; the call that Stops is the
\* last one and the result is that call's alone; a call that does not stop
\* is followed by a call of the next resolver to try.
FallbackRule(Stops(_)) ==
  LET tried == ProvidersToTry(worker_config)
      n == Len(provider_calls)
  IN
  /\ n <= Len(tried)
  /\ \A i \in 1..n : provider_calls[i].provider = tried[i]
  /\ worker_config.selected_provider = "" =>
       \A i, j \in 1..n :
         i < j => PriorityOf(provider_calls[i].provider)
                    < PriorityOf(provider_calls[j].provider)
  /\ \A i \in 1..n :
       Stops(provider_calls[i].response) =>
         /\ i = n
         /\ fallback_pc # "loop"
         /\ fallback_result.success
         /\ fallback_result.provider = provider_calls[i].provider
         /\ fallback_result.url \in UrlsOf(provider_calls[i].response)
         /\ fallback_result.results = provider_calls[i].response.results
         /\ fallback_result.confidence
              \in {provider_calls[i].response.confidence, 0}
  /\ \A i \in 1..n :
       (/\ ~Stops(provider_calls[i].response)
        /\ i < Len(tried)
        /\ fallback_pc \notin {"idle", "loop"})
       => n > i

\* C21 as stated: find_url_with_fallback calls the resolvers in priority
\* order, stops at the first one that returns a non-empty candidate list or
\* a selected URL, returns only that resolver's URL, confidence and
\* candidates, and follows a resolver that returned nothing by the next.
C21_FirstAnswerWins == FallbackRule(Answered)

\* C21 amended: the same with "a selected URL" read as "a selected URL
\* together with a confidence": a selected URL without confidence and
\* without candidates does not stop the loop.
C21_FirstUsableAnswerWins == FallbackRule(AnsweredWithConfidence)

\* The first resolver gave nothing usable and the second one's answer was
\* returned.
C21_Witness ==
  /\ fallback_pc = "returned"
  /\ Len(provider_calls) = 2
  /\ ~AnsweredWithConfidence(provider_calls[1].response)
  /\ AnsweredWithConfidence(provider_calls[2].response)
  /\ fallback_result.success

\* The resolver raised, or returned neither a selected URL nor candidates.
FailedOrEmpty(response) ==
  \/ response.raises
  \/ response.selected_url = NoUrl /\ response.results = <<>>

\* C22: no exception leaves find_url_with_fallback; a resolver that raised
\* is followed by the next resolver to try; when every resolver raised or
\* returned nothing the result is a failure carrying the last error, and
\* process_store marks the store not_found with that error.
C22_ResolverFailureContained ==
  LET tried == ProvidersToTry(worker_config)
      n == Len(provider_calls)
      s == worker_config.store
  IN
  /\ fallback_pc # "raised"
  /\ \A i \in 1..n :
       (/\ provider_calls[i].response.raises
        /\ i < Len(tried)
        /\ fallback_pc \notin {"idle", "loop"})
       => n > i
  /\ (/\ fallback_pc \notin {"idle", "loop"}
      /\ tried # <<>>
      /\ \A i \in 1..n : FailedOrEmpty(provider_calls[i].response))
     => /\ n = Len(tried)
        /\ ~fallback_result.success
        /\ fallback_result.error = ProviderError(provider_calls[n])
        /\ fallback_pc # "validate"
        /\ fallback_pc = "not_found" =>
             /\ status[s] = "not_found"
             /\ url_finding_error[s] = ProviderError(provider_calls[n])

\* Both resolvers raised and the store was marked not_found with the
\* second one's error.
C22_Witness ==
  /\ fallback_pc = "not_found"
  /\ Len(provider_calls) = 2
  /\ provider_calls[1].response.raises
  /\ provider_calls[2].response.raises
  /\ status[worker_config.store] = "not_found"
  /\ url_finding_error[worker_config.store]
       = [kind |-> "error", provider |-> provider_calls[2].provider]

(* -------- url-finder: starting and stopping run_continuous ------------- *)

\* POST /api/worker/start (and the start at the bottom of app.py): "if
\* worker.running" answers 'already running'; otherwise a thread is
\* started on worker.run_continuous. One thread at a time is modelled.
StartWorker(p) ==
  /\ pc[p] \in {"off", "returned"}
  /\ ~running
  /\ pc' = [pc EXCEPT ![p] = "starting"]
  /\ stop_requested' = FALSE
  /\ in_flight' = NoStore
  /\ UNCHANGED <<status, base_url, age, url_finding_attempts, rowlock, cur,
                 batch, cycle_count, winners, running>>
  /\ UNCHANGED othersOfLoop

\* The thread's first statements: self.running = True, cycle_count = 0.
RunContinuousBegin(p) ==
  /\ pc[p] = "starting"
  /\ running' = TRUE
  /\ pc' = [pc EXCEPT ![p] = "idle"]
  /\ cycle_count' = [cycle_count EXCEPT ![p] = 0]
  /\ UNCHANGED <<status, base_url, age, url_finding_attempts, rowlock, cur,
                 batch, winners, stop_requested, in_flight>>
  /\ UNCHANGED othersOfLoop

\* "while self.running:" with the flag set: the next cycle.
WhileRunning(p) == running /\ RunCycle(p)

\* "while self.running:" with the flag cleared: run_continuous returns.
RunContinuousReturn(p) ==
  /\ pc[p] = "idle"
  /\ ~running
  /\ pc' = [pc EXCEPT ![p] = "returned"]
  /\ UNCHANGED <<status, base_url, age, url_finding_attempts, rowlock, cur,
                 batch, cycle_count, winners, loopVars>>
  /\ UNCHANGED othersOfLoop

\* "for store in stores: if not self.running: break" with the flag set, or
\* the end of the batch.
ForNextStore(p) == (running \/ batch[p] = <<>>) /\ NextStore(p)

\* "if not self.running: break": the rest of the batch is dropped.
ForBreak(p) ==
  /\ pc[p] = "next"
  /\ batch[p] # <<>>
  /\ ~running
  /\ pc' = [pc EXCEPT ![p] = "idle"]
  /\ batch' = [batch EXCEPT ![p] = <<>>]
  /\ UNCHANGED <<status, base_url, age, url_finding_attempts, rowlock, cur,
                 cycle_count, winners, loopVars>>
  /\ UNCHANGED othersOfLoop

\* unlock_store raises (get_connection gives up after its retries, or the
\* UPDATE fails). After process_store the exception reaches the inner
\* handler, whose own unlock_store call raises the same way; the exception
\* then reaches the handler of the while loop: the row is left as it is,
\* the rest of the batch is dropped and the next cycle starts.
UnlockRaises(p) ==
  /\ pc[p] = "unlock"
  /\ pc' = [pc EXCEPT ![p] = "idle"]
  /\ batch' = [batch EXCEPT ![p] = <<>>]
  /\ cur' = [cur EXCEPT ![p] = NoStore]
  /\ UNCHANGED <<status, base_url, age, url_finding_attempts, rowlock,
                 cycle_count, winners, loopVars>>
  /\ UNCHANGED othersOfLoop

\* POST /api/worker/stop: "if not worker.running" answers 'not running';
\* otherwise worker.stop() clears the flag.
StopWorker(p) ==
  /\ running
  /\ running' = FALSE
  /\ stop_requested' = TRUE
  /\ in_flight' = cur[p]
  /\ UNCHANGED urlVars
  /\ UNCHANGED othersOfLoop

\* _handle_shutdown (SIGTERM, SIGINT in the main thread): the flag is
\* cleared whatever it was.
HandleShutdown(p) ==
  /\ ~stop_requested
  /\ running' = FALSE
  /\ stop_requested' = TRUE
  /\ in_flight' = cur[p]
  /\ UNCHANGED urlVars
  /\ UNCHANGED othersOfLoop

\* The worker object exists and no thread runs it.
InitLoop ==
  /\ status = [s \in Stores |-> "pending_url"]
  /\ base_url = [s \in Stores |-> ""]
  /\ age = [s \in Stores |-> 0]
  /\ url_finding_attempts = [s \in Stores |-> 0]
  /\ rowlock = [s \in Stores |-> NoProc]
  /\ pc = [p \in Procs |-> IF p \in Workers THEN "off" ELSE "idle"]
  /\ cur = [p \in Procs |-> NoStore]
  /\ batch = [p \in Procs |-> <<>>]
  /\ cycle_count = [p \in Procs |-> 0]
  /\ winners = [s \in Stores |-> {}]
  /\ InitEmailVars /\ InitCrawlVars /\ InitRestVars

NextLoop ==
  \/ \E p \in Workers : StartWorker(p)
  \/ \E p \in Workers : RunContinuousBegin(p)
  \/ \E p \in Workers : WhileRunning(p)
  \/ \E p \in Workers : RunContinuousReturn(p)
  \/ \E p \in Workers : FetchBatch(p)
  \/ \E p \in Workers : ForNextStore(p)
  \/ \E p \in Workers : ForBreak(p)
  \/ \E p \in Workers : LockSelect(p)
  \/ \E p \in Workers : LockUpdate(p)
  \/ \E p \in Workers : CheckRetries(p)
  \/ \E p \in Workers, o \in ProcessOutcomes : ProcessStore(p, o)
  \/ \E p \in Workers : Unlock(p)
  \/ \E p \in Workers : UnlockRaises(p)
  \/ \E p \in Workers : StopWorker(p)
  \/ \E p \in Workers : HandleShutdown(p)
  \/ \E s \in Stores : UpdateStoreUrl(s)

SpecLoop == InitLoop /\ [][NextLoop]_vars

(* ------------------- claims about the worker's loop -------------------- *)

\* The worker is about to unlock a store whose row nothing wrote since the
\* lock: process_store (or increment_url_finding_attempts) raised.
ProcessingRaised(p) ==
  /\ pc[p] = "unlock"
  /\ status[cur[p]] = "processing"

\* C23: when processing a store raised, the worker's next step releases
\* the store's lock and goes on to the next store of the batch; and
\* run_continuous returns only with the running flag cleared.
C23_FailureDoesNotStopPool ==
  [][\A p \in Workers :
       /\ (ProcessingRaised(p) /\ pc'[p] # "unlock")
          => /\ status'[cur[p]] # "processing"
             /\ pc'[p] = "next"
             /\ batch'[p] = Tail(batch[p])
       /\ (pc[p] # "returned" /\ pc'[p] = "returned") => ~running]_vars

\* C24 (its safety half): once the flag was cleared, and until the next
\* start request, the worker locks no store other than the one it had in
\* hand when the flag was cleared.
C24_NoLockAfterStop ==
  [][\A p \in Workers :
       (/\ stop_requested
        /\ pc[p] = "lock_update"
        /\ pc'[p] = "check_retries")
       => cur[p] = in_flight]_vars

(* ---- email-scraper: the statistics of a crawl and its scraping_error -- *)

\* The thread whose crawl is followed.
StatsThreads == {"t1"}

\* The values of max_pages (EMAIL_SCRAPER_MAX_PAGES is read from the
\* environment when the service starts).
MaxPagesValues == {1, 2, 3, EMAIL_SCRAPER_MAX_PAGES}

\* len(page_queue) when no fetch of discover_pages returned a page: the
\* target pages, whose normalized URLs differ, cut to max_pages.
PagesDiscovered(max_pages) == Min(NumTargetPages, max_pages)

\* scrape_emails starts: stats is zeroed.
CrawlStart(t) ==
  /\ StartSessionCommit(t)
  /\ stats' = NoStats
  /\ fetched' = FALSE
  /\ scraping_error' = "none"
  /\ fetch_log' = NoFetchLog

\* get_page is entered: no request of this call yet.
GetPageBegin(t) ==
  /\ GetPageEnterCommit(t)
  /\ fetch_log' = NoFetchLog
  /\ UNCHANGED <<stats, fetched, scraping_error>>

\* One session.get of get_page; only a 2xx response makes get_page return
\* the page's text.
FetchAttempt(t, response, retry_after) ==
  /\ AttemptCommit(t, response, retry_after)
  /\ fetched' = (response = "ok")
  /\ fetch_log' = [requests |-> fetch_log.requests + 1,
                   response |-> response]
  /\ UNCHANGED <<stats, scraping_error>>

\* discover_pages goes on, or returns and stats['pages_discovered'] is set.
DiscoveryFetchDone(t, max_pages) ==
  /\ AfterDiscoveryFetchCommit(t)
  /\ stats' = IF phase'[t] = "scrape"
              THEN [stats EXCEPT
                      !.pages_discovered = PagesDiscovered(max_pages)]
              ELSE stats
  /\ UNCHANGED <<fetched, scraping_error, fetch_log>>

\* scrape_page returned: "if success: pages_scraped += 1 else:
\* pages_failed += 1".
ScrapePageDone(t) ==
  /\ AfterScrapePageCommit(t)
  /\ stats' = IF fetched
              THEN [stats EXCEPT !.pages_scraped = @ + 1]
              ELSE [stats EXCEPT !.pages_failed = @ + 1]
  /\ UNCHANGED <<fetched, scraping_error, fetch_log>>

\* scrape_emails_for_store on the returned stats, for n raw emails.
ScrapingError(st, n) ==
  IF n # 0 THEN "none"
  ELSE IF st.pages_discovered = 0 THEN "No pages discovered"
  ELSE IF st.pages_failed = st.pages_discovered THEN "All N pages failed"
  ELSE IF st.pages_scraped = 0 THEN "No pages successfully scraped"
  ELSE "none"

\* Top of the loop of scrape_emails; when the loop ends scrape_emails
\* returns n raw emails (none unless a page was scraped) and
\* scrape_emails_for_store derives scraping_error.
CrawlLoopHead(t, n) ==
  /\ LoopHeadCommit(t, stats.pages_discovered)
  /\ n # 0 => stats.pages_scraped > 0
  /\ scraping_error' = IF crawl_pc'[t] = "idle"
                       THEN ScrapingError(stats, n)
                       ELSE scraping_error
  /\ UNCHANGED <<stats, fetched, fetch_log>>

InitScenarioB == InitCrawl

\* One crawl at a time of a domain that answers 429 to every request.
NextScenarioB ==
  \/ \E t \in StatsThreads : CrawlStart(t)
  \/ \E t \in StatsThreads : GetPageBegin(t)
  \/ \E t \in StatsThreads, ra \in RetryAfterValues :
       FetchAttempt(t, "rate_limited", ra)
  \/ \E t \in StatsThreads, m \in MaxPagesValues : DiscoveryFetchDone(t, m)
  \/ \E t \in StatsThreads : ScrapePageDone(t)
  \/ \E t \in StatsThreads, n \in {0, 1} : CrawlLoopHead(t, n)

SpecScenarioB == InitScenarioB /\ [][NextScenarioB]_vars

\* A crawl has ended and its statistics are those of that crawl.
CrawlEnded(t) ==
  /\ crawl_pc[t] = "idle"
  /\ stats.pages_discovered > 0

\* C25: for a domain that answers 429 to every request the crawl ends with
\* the breaker open after max_consecutive_429 consecutive 429s, with
\* pages_failed == pages_discovered, and with the scraping error 'All N
\* pages failed'.
C25_AllPagesFailedOn429 ==
  \A t \in StatsThreads :
    CrawlEnded(t) =>
      /\ circuit_open
      /\ consecutive_429_count = max_consecutive_429
      /\ stats.pages_failed = stats.pages_discovered
      /\ scraping_error = "All N pages failed"

(* ----------------- url-finder: app.py, POST /api/jobs ------------------ *)

\* The review URLs a job may be about.
AppUrls == {"u1", "u2"}

\* The ids of the rows of jobs whose app_url is u.
JobsOf(u) == {i \in 1..Len(jobs) : jobs[i].app_url = u}

\* get_job_by_url: "WHERE app_url = %s ORDER BY id DESC LIMIT 1".
GetJobByUrl(u) ==
  IF JobsOf(u) = {} THEN NoJob
  ELSE CHOOSE i \in JobsOf(u) : \A j \in JobsOf(u) : j <= i

\* is_job_complete
IsJobComplete(i) ==
  jobs[i].status \in {"finding_urls", "scraping_emails", "completed"}

\* create_job: INSERT ... 'scraping_reviews' RETURNING id. The table has no
\* unique constraint on app_url.
CreateJobRows(rows, u) ==
  Append(rows, [app_url |-> u, status |-> "scraping_reviews"])

\* POST /api/jobs arrives with app_url u.
CreateJobRequest(c, u) ==
  /\ job_request[c].pc = "idle"
  /\ job_request' = [job_request EXCEPT ![c] =
       [pc |-> "get_job_by_url", app_url |-> u, existing_job |-> NoJob,
        job_id |-> NoJob]]
  /\ UNCHANGED jobs
  /\ UNCHANGED othersOfJobs

\* existing_job = db.get_job_by_url(app_url)
CreateJobSelect(c) ==
  /\ job_request[c].pc = "get_job_by_url"
  /\ job_request' = [job_request EXCEPT ![c] =
       [@ EXCEPT !.pc = "decide",
                 !.existing_job = GetJobByUrl(job_request[c].app_url)]]
  /\ UNCHANGED jobs
  /\ UNCHANGED othersOfJobs

\* "if existing_job:" the request is rejected (complete) or resumes that
\* job; otherwise db.create_job inserts a row. The request then answers.
CreateJobDecide(c) ==
  /\ job_request[c].pc = "decide"
  /\ IF job_request[c].existing_job # NoJob
     THEN /\ UNCHANGED jobs
          /\ job_request' = [job_request EXCEPT ![c] =
               [@ EXCEPT !.pc = "answered",
                         !.job_id = job_request[c].existing_job]]
     ELSE /\ jobs' = CreateJobRows(jobs, job_request[c].app_url)
          /\ job_request' = [job_request EXCEPT ![c] =
               [@ EXCEPT !.pc = "answered",
                         !.job_id = Len(jobs')]]
  /\ UNCHANGED othersOfJobs

\* The response has been sent.
CreateJobDone(c) ==
  /\ job_request[c].pc = "answered"
  /\ job_request' = [job_request EXCEPT ![c] = NoRequest]
  /\ UNCHANGED jobs
  /\ UNCHANGED othersOfJobs

\* The scraping thread of a job ends: update_job_status(job_id,
\* 'finding_urls') or, on an exception, 'error'.
ScrapeReviewsEnd(i, st) ==
  /\ i \in 1..Len(jobs)
  /\ jobs[i].status = "scraping_reviews"
  /\ jobs' = [jobs EXCEPT ![i].status = st]
  /\ UNCHANGED job_request
  /\ UNCHANGED othersOfJobs

InitJobs == InitUrl

NextJobs ==
  \/ \E c \in Callers, u \in AppUrls : CreateJobRequest(c, u)
  \/ \E c \in Callers : CreateJobSelect(c)
  \/ \E c \in Callers : CreateJobDecide(c)
  \/ \E c \in Callers : CreateJobDone(c)
  \/ \E i \in 1..Len(jobs), st \in {"finding_urls", "error"} :
       ScrapeReviewsEnd(i, st)

SpecJobs == InitJobs /\ [][NextJobs]_vars

\* C26: at most one job row exists per app_url, and a request that
\* answers does so with the id of that row.
C26_OneJobPerUrl ==
  /\ \A u \in AppUrls : Cardinality(JobsOf(u)) <= 1
  /\ \A c \in Callers :
       job_request[c].pc = "answered" =>
         JobsOf(job_request[c].app_url) = {job_request[c].job_id}

(* ---------- email-scraper: modules/ai_email_extractor.py --------------- *)

\* The sequences over S of length at most n.
SeqsUpTo(S, n) == UNION {[1..k -> S] : k \in 0..n}

\* The elements of a sequence.
Range(seq) == {seq[k] : k \in 1..Len(seq)}

\* The strings found on pages: two spellings of one address, the same
\* address with whitespace and a trailing dot, another address, a string
\* without '@' and two addresses in one string.
RawEmailStrings ==
  {"a@x.com", "A@X.com", " a@x.com.", "b@y.org", "nomail", "a@x.com,b@y.org"}

\* The strings the provider may put in "relevant_emails": addresses of the
\* list in either spelling, an address that is not in it, a non-address.
ReturnedStrings == {"a@x.com", "A@X.com", "b@y.org", "c@z.net", "nomail"}

\* email.strip().rstrip('.').strip()
Clean(email) == IF email = " a@x.com." THEN "a@x.com" ELSE email

\* str.lower()
Lower(email) == IF email = "A@X.com" THEN "a@x.com" ELSE email

\* is_valid_email_format: '@', a local part, a dotted domain with an
\* alphabetic TLD, and a full match of EMAIL_RE.
IsValidEmailFormat(email) ==
  email \in {"a@x.com", "A@X.com", "b@y.org", "c@z.net"}

\* "email.count('@') > 1 or len(email) > 100"
IsConcatenated(email) == email = "a@x.com,b@y.org"

\* split_concatenated_emails: the valid matches of EMAIL_RE.
SplitConcatenatedEmails(email) ==
  IF email = "a@x.com,b@y.org" THEN <<"a@x.com", "b@y.org">> ELSE <<>>

\* Append to `normalized` the emails of `emails` whose lowercase form is
\* not in it yet ("if email_lower not in seen_lower").
RECURSIVE AddUnseen(_, _)
AddUnseen(normalized, emails) ==
  IF emails = <<>> THEN normalized
  ELSE LET e == Head(emails) IN
       IF IsValidEmailFormat(e)
          /\ Lower(e) \notin {Lower(n) : n \in Range(normalized)}
       THEN AddUnseen(Append(normalized, e), Tail(emails))
       ELSE AddUnseen(normalized, Tail(emails))

\* normalize_and_deduplicate_emails, from the emails kept so far.
RECURSIVE NormalizeFrom(_, _)
NormalizeFrom(normalized, raw_emails) ==
  IF raw_emails = <<>> THEN normalized
  ELSE LET email == Clean(Head(raw_emails)) IN
       IF IsConcatenated(email)
       THEN NormalizeFrom(AddUnseen(normalized, SplitConcatenatedEmails(email)),
                          Tail(raw_emails))
       ELSE NormalizeFrom(AddUnseen(normalized, <<email>>), Tail(raw_emails))

NormalizeAndDeduplicateEmails(raw_emails) == NormalizeFrom(<<>>, raw_emails)

\* What chat.completions.create and json.loads give: an exception of the
\* provider, a text that is not JSON, or a JSON object with its
\* "relevant_emails".
AiResponses ==
  {[kind |-> k, relevant_emails |-> <<>>] : k \in {"error", "bad_json"}}
  \cup
  {[kind |-> "ok", relevant_emails |-> r] :
     r \in SeqsUpTo(ReturnedStrings, MaxRelevant)}

\* "if email_lower in normalized_original" after the format check.
InOriginalList_AnyValid(email, normalized_emails) ==
  IsValidEmailFormat(email)
InOriginalList(email, normalized_emails) ==
  /\ IsValidEmailFormat(email)
  /\ \E n \in Range(normalized_emails) : Lower(n) = Lower(email)

\* normalized_original[email_lower]: the list's own spelling.
OriginalOf(email, normalized_emails) ==
  IF \E n \in Range(normalized_emails) : Lower(n) = Lower(email)
  THEN CHOOSE n \in Range(normalized_emails) : Lower(n) = Lower(email)
  ELSE email

\* The loop over relevant_emails that builds valid_emails.
RECURSIVE ValidEmails(_, _)
ValidEmails(relevant_emails, normalized_emails) ==
  IF relevant_emails = <<>> THEN <<>>
  ELSE LET email == Head(relevant_emails)
           rest == ValidEmails(Tail(relevant_emails), normalized_emails)
       IN IF InOriginalList(email, normalized_emails)
          THEN <<OriginalOf(email, normalized_emails)>> \o rest
          ELSE rest

\* extract_relevant_emails(raw_emails, ...)['emails'] for what the
\* provider answers.
ExtractRelevantEmails(raw_emails, response) ==
  IF raw_emails = <<>> THEN <<>>
  ELSE LET normalized_emails == NormalizeAndDeduplicateEmails(raw_emails) IN
       IF normalized_emails = <<>> THEN <<>>
       ELSE IF response.kind # "ok" THEN <<>>
       ELSE ValidEmails(response.relevant_emails, normalized_emails)

\* One call of extract_relevant_emails.
ExtractRelevantEmailsCall(response) ==
  /\ ~extraction.called
  /\ extraction' =
       [extraction EXCEPT
          !.called = TRUE,
          !.response = response,
          !.emails = ExtractRelevantEmails(extraction.raw_emails, response)]
  /\ UNCHANGED othersOfPure

InitFilter ==
  /\ InitUrlVars /\ InitEmailVars /\ InitCrawlVars /\ InitSchedRetryResolve
  /\ InitFallbackVars /\ InitLoopVars /\ InitStatsVars /\ InitJobVars
  /\ InitContentVars /\ InitThreadVars /\ InitGeminiVars /\ InitNormVars /\ InitDiscoverVars
  /\ \E raw \in SeqsUpTo(RawEmailStrings, MaxRawEmails) :
       extraction = [NoExtraction EXCEPT !.raw_emails = raw]

NextFilter == \E response \in AiResponses : ExtractRelevantEmailsCall(response)

SpecFilter == InitFilter /\ [][NextFilter]_vars

\* C27: every email returned by extract_relevant_emails is, ignoring
\* case, an element of the normalized input list; when the provider fails
\* or its answer does not parse the result is the empty list.
C27_FilterReturnsListedEmails ==
  extraction.called =>
    /\ \A e \in Range(extraction.emails) :
         \E n \in Range(NormalizeAndDeduplicateEmails(extraction.raw_emails)) :
           Lower(n) = Lower(e)
    /\ extraction.response.kind # "ok" => extraction.emails = <<>>

\* The provider answered with an address of the list and with one that is
\* not in it; only the first was returned.
C27_Witness ==
  /\ extraction.called
  /\ extraction.response.kind = "ok"
  /\ "c@z.net" \in Range(extraction.response.relevant_emails)
  /\ extraction.emails # <<>>

(* ------------- the emails and raw_emails columns of a store ------------ *)

\* The columns both update_store_emails write, with the status of the
\* service that writes.
WriteEmails(s, st, emails, raw_emails) ==
  /\ WriteStatus(s, st)
  /\ store_emails' = [store_emails EXCEPT ![s] = emails]
  /\ store_raw_emails' = [store_raw_emails EXCEPT ![s] = raw_emails]
  /\ emails_found' = [emails_found EXCEPT ![s] = Len(emails)]
  /\ UNCHANGED <<base_url, url_finding_attempts, rowlock, pc, cur, batch,
                 cycle_count>>
  /\ UNCHANGED <<job_pc, job_store, job_result, current_status>>
  /\ UNCHANGED othersOfContent

\* scrape_emails_for_store, the crawl returned: the accepted emails are
\* the filter's (when the extractor is configured and there are raw
\* emails) or the raw emails themselves, and update_store_emails stores
\* both. A scraping_error is only set when there are no raw emails.
CrawlWrite(s, raw_emails, use_ai, response, has_error) ==
  LET emails == IF use_ai /\ raw_emails # <<>>
                THEN ExtractRelevantEmails(raw_emails, response)
                ELSE raw_emails
  IN /\ has_error => raw_emails = <<>>
     /\ WriteEmails(s,
          EmailScraperStatus(status[s], status[s], Len(emails),
                             has_error),
          emails, raw_emails)

\* scrape_emails_for_store, an exception: update_store_emails with no
\* accepted emails, the raw emails read so far (none on the critical
\* path) and a has_error.
ErrorWrite(s, raw_emails) ==
  WriteEmails(s, EmailScraperStatus(status[s], status[s], 0, TRUE),
              <<>>, raw_emails)

\* str.strip() of the endpoint.
Strip(email) == IF email = " c@z.net" THEN "c@z.net" ELSE email

\* The strings a PUT may carry in "emails" and in "raw_emails".
ManualEmailStrings == {"a@x.com", " c@z.net", "nomail"}
ManualRawStrings == {"a@x.com", "b@y.org", "nomail"}

\* email_pattern.match(email) of the endpoint.
MatchesEmailPattern(email) == email \in {"a@x.com", "b@y.org", "c@z.net"}

\* "if email and '@' in email"
HasAt(email) == email # "nomail"

\* "email = email.strip()" over a list.
StripAll(emails) == [i \in 1..Len(emails) |-> Strip(emails[i])]

\* PUT /api/stores/<id>/emails: the two lists are validated separately and
\* stored by the url-finder's update_store_emails.
ManualWrite(s, emails, raw_emails) ==
  LET valid_emails == SelectSeq(StripAll(emails), MatchesEmailPattern)
      valid_raw_emails == SelectSeq(StripAll(raw_emails), HasAt)
  IN WriteEmails(s, UrlFinderEmailStatus(Len(valid_emails), FALSE),
                 valid_emails, valid_raw_emails)

InitContent == InitUrl

NextContent ==
  \/ \E s \in Stores, raw \in SeqsUpTo(RawEmailStrings, MaxRawEmails),
        use_ai \in BOOLEAN, response \in AiResponses,
        has_error \in BOOLEAN :
       CrawlWrite(s, raw, use_ai, response, has_error)
  \/ \E s \in Stores, raw \in SeqsUpTo(RawEmailStrings, MaxRawEmails) :
       ErrorWrite(s, raw)
  \/ \E s \in Stores, emails \in SeqsUpTo(ManualEmailStrings, MaxRelevant),
        raw \in SeqsUpTo(ManualRawStrings, MaxRawEmails) :
       ManualWrite(s, emails, raw)

SpecContent == InitContent /\ [][NextContent]_vars

\* The normal forms of the raw emails of a store: those of the strings
\* themselves and of what normalize_and_deduplicate_emails makes of them.
NormalizedRaw(s) ==
  {Lower(Clean(r)) : r \in Range(store_raw_emails[s])}
  \cup {Lower(n) : n \in Range(NormalizeAndDeduplicateEmails(store_raw_emails[s]))}

\* C28: in every reachable state every accepted email of a store is,
\* after normalization, one of the store's raw emails.
C28_AcceptedEmailsAreRawEmails ==
  \A s \in Stores :
    \A e \in Range(store_emails[s]) : Lower(Clean(e)) \in NormalizedRaw(s)

(* ------------------- EmailProcessor.normalize_email -------------------- *)

\* The characters of a local part (" " stands for any whitespace) and the
\* texts after the '@'.
LocalChars == {"a", "A", ".", "+", " "}
DomainStrings == {"gmail.com", "GMail.com", "googlemail.com ", "x.com"}

EmailStrings ==
  {[local |-> l, has_at |-> TRUE, domain |-> d] :
     l \in SeqsUpTo(LocalChars, MaxLocal), d \in DomainStrings}
  \cup {[local |-> l, has_at |-> FALSE, domain |-> ""] :
          l \in SeqsUpTo(LocalChars, MaxLocal)}

\* str.lower() on the characters before the '@'.
LowerChars(l) == [i \in 1..Len(l) |-> IF l[i] = "A" THEN "a" ELSE l[i]]

\* str.lower() and the right end of str.strip() on the text after the '@'.
LowerRStripDomain(d) ==
  CASE d = "GMail.com" -> "gmail.com"
    [] d = "googlemail.com " -> "googlemail.com"
    [] OTHER -> d

RECURSIVE LStrip(_)
LStrip(l) ==
  IF l # <<>> /\ Head(l) = " " THEN LStrip(Tail(l)) ELSE l

RECURSIVE RStrip(_)
RStrip(l) ==
  IF l # <<>> /\ l[Len(l)] = " " THEN RStrip(SubSeq(l, 1, Len(l) - 1))
  ELSE l

\* local_part.split('+')[0], and the same with rsplit('+', 1)[0].
RECURSIVE BeforePlus_Last(_)
BeforePlus_Last(l) ==
  IF l = <<>> THEN <<>>
  ELSE IF l[Len(l)] = "+" THEN SubSeq(l, 1, Len(l) - 1)
  ELSE IF \E i \in 1..Len(l) : l[i] = "+"
       THEN BeforePlus_Last(SubSeq(l, 1, Len(l) - 1))
  ELSE l
RECURSIVE BeforePlus(_)
BeforePlus(l) ==
  IF l = <<>> \/ Head(l) = "+" THEN <<>>
  ELSE <<Head(l)>> \o BeforePlus(Tail(l))

\* local_part.replace('.', '')
IsNotDot(c) == c # "."
RemoveDots(l) == SelectSeq(l, IsNotDot)

NormalizeEmail(email) ==
  IF ~email.has_at
  THEN [email EXCEPT !.local = RStrip(LStrip(LowerChars(email.local)))]
  ELSE LET local_part == LStrip(LowerChars(email.local))
           domain == LowerRStripDomain(email.domain)
       IN IF domain \in {"gmail.com", "googlemail.com"}
          THEN [local |-> RemoveDots(BeforePlus(local_part)),
                has_at |-> TRUE, domain |-> "gmail.com"]
          ELSE [local |-> local_part, has_at |-> TRUE, domain |-> domain]

NormalizeEmailCall ==
  /\ normalization.pc = "start"
  /\ normalization' = [normalization EXCEPT
       !.pc = "once", !.once = NormalizeEmail(normalization.input)]
  /\ UNCHANGED othersOfNorm

NormalizeEmailAgain ==
  /\ normalization.pc = "once"
  /\ normalization' = [normalization EXCEPT
       !.pc = "twice", !.twice = NormalizeEmail(normalization.once)]
  /\ UNCHANGED othersOfNorm

InitNormalize ==
  /\ InitUrlVars /\ InitEmailVars /\ InitCrawlVars /\ InitSchedRetryResolve
  /\ InitFallbackVars /\ InitLoopVars /\ InitStatsVars /\ InitJobVars
  /\ InitPureVars /\ InitContentVars /\ InitThreadVars /\ InitGeminiVars /\ InitDiscoverVars
  /\ \E email \in EmailStrings :
       normalization = [NoNormalization EXCEPT !.input = email]

NextNormalize == NormalizeEmailCall \/ NormalizeEmailAgain

SpecNormalize == InitNormalize /\ [][NextNormalize]_vars

\* An email string has whitespace around it only: none between the first
\* and the last other character.
SurroundingWhitespaceOnly(email) ==
  LET inner == IF email.has_at THEN LStrip(email.local)
               ELSE RStrip(LStrip(email.local))
  IN \A i \in 1..Len(inner) : inner[i] # " "

\* C29: normalize_email is idempotent: for every email string (any case,
\* surrounding whitespace, Gmail/Googlemail dots and +tags) normalizing the
\* normalized string gives the normalized string.
C29_NormalizeIdempotent ==
  (normalization.pc = "twice" /\ SurroundingWhitespaceOnly(normalization.input))
    => normalization.twice = normalization.once

\* A Googlemail address in capitals, with whitespace around it, a dot and
\* two +tags, was normalized twice: both results are "a@gmail.com".
C29_Witness ==
  /\ normalization.pc = "twice"
  /\ normalization.input = [local |-> <<" ", "A", ".", "+">>, has_at |-> TRUE,
                         domain |-> "googlemail.com "]
  /\ normalization.once = [local |-> <<"a">>, has_at |-> TRUE,
                        domain |-> "gmail.com"]
  /\ normalization.twice = normalization.once

(* -------------------- EmailScraper.discover_pages ---------------------- *)

\* A URL: its host, its path without a trailing slash, and what follows
\* the path (a trailing slash or a query).
StoreHost == "s.com"
PageUrl(host, path, suffix) == [host |-> host, path |-> path, suffix |-> suffix]

\* get_target_pages: the targets joined to the store URL.
TargetPaths ==
  <<"/", "/contact", "/pages/contact", "/pages/contact-us",
    "/pages/about", "/pages/about-us", "/about", "/about-us",
    "/help", "/support", "/faq", "/pages/help", "/pages/support", "/pages/faq",
    "/team", "/careers", "/careers/contact", "/pages/team", "/pages/careers",
    "/policies/privacy-policy", "/policies/terms-of-service",
    "/policies/refund-policy", "/policies/shipping-policy",
    "/policies/contact-information", "/policies/terms", "/policies/privacy",
    "/sitemap.xml">>
GetTargetPages ==
  [i \in 1..NumTargetPages |-> PageUrl(StoreHost, TargetPaths[i], "")]

\* The links a sitemap, a footer or a page may carry: a target with a
\* trailing slash, a page with and without a query, a page no target
\* names, and a page of another host.
LinkUrls ==
  {PageUrl(StoreHost, "/contact", "/"),
   PageUrl(StoreHost, "/blog", ""),
   PageUrl(StoreHost, "/blog", "?ref=contact"),
   PageUrl(StoreHost, "/pages/email-us", ""),
   PageUrl("o.com", "/contact", "")}

\* normalize_url: scheme, netloc and the path without its trailing
\* slash; params, query and fragment are dropped.
NormalizeUrl(url) == [url EXCEPT !.suffix = ""]

\* is_high_value_page: a keyword occurs in the lowercase URL.
IsHighValuePage(url) ==
  \/ url.path \notin {"/", "/sitemap.xml", "/blog"}
  \/ url.suffix = "?ref=contact"

\* "priority = 1 if self.is_high_value_page(page) else 2"
HighOrMedium(url) == IF IsHighValuePage(url) THEN 1 ELSE 2
\* The priority each loop of discover_pages gives a page it adds.
PagePriority(loop, url) ==
  CASE loop \in {"targets", "sitemap"} -> HighOrMedium(url)
    [] loop = "footer" -> 2
    [] loop = "high_value" -> 3

\* One of the four loops of discover_pages over `pages`: a page whose
\* normalized URL is not in seen and (but for the targets) whose host is
\* the store's is added to seen and appended to page_queue.
RECURSIVE AddPages(_, _, _, _)
AddPages(d, pages, loop, same_host_only) ==
  IF pages = <<>> THEN d
  ELSE LET page == Head(pages)
           normalized == NormalizeUrl(page)
       IN IF normalized \notin d.seen
             /\ (same_host_only => page.host = StoreHost)
          THEN AddPages(
                 [d EXCEPT !.seen = @ \cup {normalized},
                           !.page_queue =
                             Append(@, [url |-> page,
                                        priority |-> PagePriority(loop, page)])],
                 Tail(pages), loop, same_host_only)
          ELSE AddPages(d, Tail(pages), loop, same_host_only)

IsHigh(entry) == entry.priority = 1
IsMedium(entry) == entry.priority = 2
IsLow(entry) == entry.priority = 3

\* page_queue.sort(key=lambda x: x[1]): list.sort is stable.
SortByPriority_None(q) == q
SortByPriority(q) ==
  SelectSeq(q, IsHigh) \o SelectSeq(q, IsMedium) \o SelectSeq(q, IsLow)

\* The target pages.
DiscoverTargets ==
  /\ discovery.pc = "start"
  /\ discovery' =
       [AddPages(discovery, GetTargetPages, "targets", FALSE)
          EXCEPT !.pc = "sitemap"]
  /\ UNCHANGED othersOfDiscover

\* The pages expand_from_sitemap returned.
DiscoverSitemap(sitemap_pages) ==
  /\ discovery.pc = "sitemap"
  /\ discovery' =
       [AddPages(discovery, sitemap_pages, "sitemap", TRUE)
          EXCEPT !.pc = "footer"]
  /\ UNCHANGED othersOfDiscover

\* The footer links of the homepage (none when the homepage was not
\* fetched), then the first five high-priority pages of the queue.
DiscoverFooter(footer_links) ==
  /\ discovery.pc = "footer"
  /\ LET d == AddPages(discovery, footer_links, "footer", TRUE) IN
     discovery' =
       [d EXCEPT !.pc = "follow",
                 !.high_value_pages = Take(SelectSeq(d.page_queue, IsHigh), 5)]
  /\ UNCHANGED othersOfDiscover

\* The links of the next high-value page (none when it was not fetched).
FollowHighValuePage(internal_links) ==
  /\ discovery.pc = "follow"
  /\ discovery.followed < Len(discovery.high_value_pages)
  /\ discovery' =
       [AddPages(discovery, internal_links, "high_value", TRUE)
          EXCEPT !.followed = @ + 1]
  /\ UNCHANGED othersOfDiscover

\* The sort and "return page_queue[:self.max_pages]".
SortAndReturn ==
  /\ discovery.pc = "follow"
  /\ discovery.followed = Len(discovery.high_value_pages)
  /\ LET sorted == SortByPriority(discovery.page_queue) IN
     discovery' =
       [discovery EXCEPT !.pc = "done", !.sorted_queue = sorted,
                         !.returned = Take(sorted, discovery.max_pages)]
  /\ UNCHANGED othersOfDiscover

\* The page budgets of the scraper: one page, one more than the targets,
\* the configured budget.
DiscoverMaxPages == {1, NumTargetPages + 1, EMAIL_SCRAPER_MAX_PAGES}

InitDiscover ==
  /\ InitUrlVars /\ InitEmailVars /\ InitCrawlVars /\ InitSchedRetryResolve
  /\ InitFallbackVars /\ InitLoopVars /\ InitStatsVars /\ InitJobVars
  /\ InitPureVars /\ InitContentVars /\ InitThreadVars /\ InitGeminiVars /\ InitNormVars
  /\ \E max_pages \in DiscoverMaxPages :
       discovery = [NoDiscovery EXCEPT !.max_pages = max_pages]

NextDiscover ==
  \/ DiscoverTargets
  \/ \E sitemap_pages \in SeqsUpTo(LinkUrls, MaxLinks) :
       DiscoverSitemap(sitemap_pages)
  \/ \E footer_links \in SeqsUpTo(LinkUrls, MaxLinks) :
       DiscoverFooter(footer_links)
  \/ \E internal_links \in SeqsUpTo(LinkUrls, MaxLinks) :
       FollowHighValuePage(internal_links)
  \/ SortAndReturn

SpecDiscover == InitDiscover /\ [][NextDiscover]_vars

\* Where an entry stands in the order of discovery.
DiscoveryIndex(entry) ==
  CHOOSE k \in 1..Len(discovery.page_queue) :
    discovery.page_queue[k] = entry

\* C30: the list discover_pages returns is ordered by priority tier (high
\* before medium before low), keeps the order of discovery within a tier,
\* has no two entries with the same normalized URL and has at most
\* max_pages entries.
C30_DiscoverPagesOrdered ==
  discovery.pc = "done" =>
    LET r == discovery.returned IN
    /\ \A i, j \in 1..Len(r) :
         i < j =>
           /\ r[i].priority <= r[j].priority
           /\ r[i].priority = r[j].priority
                => DiscoveryIndex(r[i]) < DiscoveryIndex(r[j])
           /\ NormalizeUrl(r[i].url) # NormalizeUrl(r[j].url)
    /\ \A i \in 1..Len(r) :
         \E k \in 1..Len(discovery.page_queue) : discovery.page_queue[k] = r[i]
    /\ Len(r) <= discovery.max_pages

\* discover_pages returned with the budget one above the targets: the
\* homepage was discovered first and is medium, two pages were found on
\* high-value pages, and the returned list holds all three tiers and is
\* one entry shorter than the queue.
C30_Witness ==
  /\ discovery.pc = "done"
  /\ discovery.max_pages = NumTargetPages + 1
  /\ Len(discovery.page_queue) = NumTargetPages + 2
  /\ Len(discovery.returned) = discovery.max_pages
  /\ discovery.page_queue[1].priority = 2
  /\ \E i, j, k \in 1..Len(discovery.returned) :
       /\ IsHigh(discovery.returned[i])
       /\ IsMedium(discovery.returned[j])
       /\ IsLow(discovery.returned[k])

(* ------- email-scraper: one crawl, every response, request by request --- *)

\* The page budgets of the crawl followed here.
FetchMaxPages == {1, 2}

InitFetch == InitCrawl

\* One crawl at a time of a domain that answers anything.
NextFetch ==
  \/ \E t \in StatsThreads : CrawlStart(t)
  \/ \E t \in StatsThreads : GetPageBegin(t)
  \/ \E t \in StatsThreads, r \in Responses \ {"rate_limited"} :
       FetchAttempt(t, r, 0)
  \/ \E t \in StatsThreads, ra \in RetryAfterValues :
       FetchAttempt(t, "rate_limited", ra)
  \/ \E t \in StatsThreads, m \in FetchMaxPages : DiscoveryFetchDone(t, m)
  \/ \E t \in StatsThreads : ScrapePageDone(t)
  \/ \E t \in StatsThreads, n \in {0, 1} : CrawlLoopHead(t, n)

SpecFetch == InitFetch /\ [][NextFetch]_vars

\* A request was answered with `response` in this step.
Answers(response) ==
  /\ fetch_log'.requests = fetch_log.requests + 1
  /\ fetch_log'.response = response

\* C31: on every 2xx response consecutive_429_count becomes 0, the circuit
\* becomes closed, and current_delay becomes max(base_delay, 0.9 *
\* current_delay) when it was above base_delay and is unchanged otherwise.
C31_SuccessResetsRateLimit ==
  [][Answers("ok") =>
       /\ consecutive_429_count' = 0
       /\ ~circuit_open'
       /\ current_delay' =
            IF current_delay > BASE_DELAY_MS
            THEN Max(BASE_DELAY_MS, Decay(current_delay))
            ELSE current_delay]_vars

\* A 2xx response came after 429s: the count is back at 0, the circuit is
\* closed, and the delay is nine tenths of the delay the 429s had raised.
C31_Witness ==
  /\ fetch_log.response = "ok"
  /\ fetch_log.requests > 1
  /\ wait_time > BASE_DELAY_MS
  /\ current_delay = Decay(wait_time)
  /\ consecutive_429_count = 0
  /\ ~circuit_open

\* C32: whatever the server answers, one get_page call issues at most
\* max_retries requests, and after the max_retries-th it has returned.
C32_BoundedFetch ==
  \A t \in StatsThreads :
    /\ fetch_log.requests <= max_retries
    /\ crawl_pc[t] = "attempt" => fetch_log.requests < max_retries

\* get_page returned a failure after max_retries requests that all failed.
C32_Witness ==
  \E t \in StatsThreads :
    /\ crawl_pc[t] = "returned"
    /\ fetch_log.requests = max_retries
    /\ fetch_log.response \in {"error", "rate_limited"}
    /\ ~fetched

\* C33: a 404 is no error: get_page returns at once with
\* consecutive_429_count 0 and the circuit closed, and the crawl does not
\* count the page in pages_failed.
C33_NotFoundIsNoFailure ==
  [][\A t \in StatsThreads :
       /\ Answers("not_found") =>
            /\ crawl_pc'[t] = "returned"
            /\ consecutive_429_count' = 0
            /\ ~circuit_open'
       /\ (fetch_log.response = "not_found" /\ phase[t] = "scrape"
           /\ crawl_pc[t] = "returned" /\ crawl_pc'[t] = "loop")
            => stats'.pages_failed = stats.pages_failed]_vars

\* C36: in every reachable state of a crawl session base_delay <=
\* current_delay, whatever the responses and their Retry-After.
C36_DelayAtLeastBase == BASE_DELAY_MS <= current_delay

(* ------------ url-finder: GeminiSearch.find_store_url ------------------ *)

\* What one generate_content call does: it returns a response, or raises
\* a ClientError with code 429, a ClientError whose message names
\* RESOURCE_EXHAUSTED, another exception whose text holds '429', a
\* ClientError that is no 429, or another exception.
GeminiOutcomes ==
  {"response", "client_error_429", "client_error_exhausted", "exception_429",
   "client_error_other", "exception_other"}

\* is_429, in both except clauses and after the loop.
Is429(e) ==
  e \in {"client_error_429", "client_error_exhausted", "exception_429"}

\* "delay = min(self.initial_retry_delay * (2 ** attempt), 30.0)"
GeminiRetryDelay(a) ==
  Min(GEMINI_RETRY_DELAY_MS * 2^a, GEMINI_MAX_RETRY_DELAY_MS)

\* find_store_url is called and the answer is not cached: last_error = None.
FindStoreUrlBegin ==
  /\ gemini.pc = "idle"
  /\ gemini' = [NoGeminiCall EXCEPT !.pc = "generate_content"]
  /\ UNCHANGED othersOfGemini

\* One iteration of "for attempt in range(self.max_retries + 1)": the call
\* answers (break), or raises: a 429 before the last attempt is slept on
\* and retried, anything else is raised again.
GenerateContent(outcome) ==
  /\ gemini.pc = "generate_content"
  /\ LET a == Len(gemini.calls)
         called == [gemini EXCEPT !.calls = Append(@, outcome)]
     IN gemini' =
          IF outcome = "response"
          THEN [called EXCEPT !.pc = "after_loop"]
          ELSE IF Is429(outcome) /\ a < GEMINI_MAX_RETRIES
          THEN [called EXCEPT !.last_error = outcome,
                              !.sleeps = Append(@, GeminiRetryDelay(a))]
          ELSE [called EXCEPT !.last_error = outcome, !.pc = "raised",
                              !.raised = outcome]
  /\ UNCHANGED othersOfGemini

\* After the loop: "if last_error:" and it is a 429, ValueError('Gemini
\* API rate limit exceeded ...') is raised; else the response is parsed
\* and returned.
AfterRetryLoop ==
  /\ gemini.pc = "after_loop"
  /\ gemini' =
       IF gemini.last_error # "none" /\ Is429(gemini.last_error)
       THEN [gemini EXCEPT !.pc = "raised", !.raised = "rate_limit_value_error"]
       ELSE [gemini EXCEPT !.pc = "returned"]
  /\ UNCHANGED othersOfGemini

InitGemini ==
  /\ InitUrlVars /\ InitEmailVars /\ InitCrawlVars /\ InitSchedRetryResolve
  /\ InitFallbackVars /\ InitLoopVars /\ InitStatsVars /\ InitJobVars
  /\ InitPureVars /\ InitContentVars /\ InitThreadVars /\ InitNormVars /\ InitDiscoverVars
  /\ InitGeminiVars

NextGemini ==
  \/ FindStoreUrlBegin
  \/ \E outcome \in GeminiOutcomes : GenerateContent(outcome)
  \/ AfterRetryLoop

SpecGemini == InitGemini /\ [][NextGemini]_vars

\* C34: 429 errors are retried with a delay of at most 30 s, at most
\* max_retries times; when an attempt answers after 429 failures the call
\* returns that answer's parsed result; the rate-limit ValueError is
\* raised only when all max_retries + 1 attempts failed with 429; an
\* error that is no 429 is raised without retry.
C34_GeminiRetriesThenReturns ==
  LET n == Len(gemini.calls) IN
  /\ \A k \in 1..Len(gemini.sleeps) :
       gemini.sleeps[k] <= GEMINI_MAX_RETRY_DELAY_MS
  /\ n <= GEMINI_MAX_RETRIES + 1
  /\ gemini.pc \in {"returned", "raised"} =>
       /\ gemini.calls[n] = "response" => gemini.pc = "returned"
       /\ gemini.raised = "rate_limit_value_error" =>
            /\ n = GEMINI_MAX_RETRIES + 1
            /\ \A k \in 1..n : Is429(gemini.calls[k])
       /\ (gemini.calls[n] # "response" /\ ~Is429(gemini.calls[n])) =>
            gemini.raised = gemini.calls[n]

(* ------- email-scraper: a batch started for one app and its jobs ------- *)

\* The app_name of every batch start in the behaviours followed here.
BatchApps == {1}

InitBatchOfApp == InitSched

\* Batch starts with an app_name, the jobs they admit, the completions of
\* jobs and the admissions that follow them; no start without app_name.
NextBatchOfApp ==
  \/ \E c \in Callers, a \in BatchApps : StartBatchSnapshot(c, a)
  \/ \E c \in Callers : StartBatchQuery(c)
  \/ \E c \in Callers : StartBatchLoop(c)
  \/ \E c \in Callers, s \in SchedStores, stored \in BOOLEAN :
       FinishScrapeEmailsForStore(c, s, stored)
  \/ \E c \in Callers : StartNextSnapshot(c)
  \/ \E c \in Callers : StartNextQuery(c)
  \/ \E c \in Callers : StartNextAdd(c)

SpecBatchOfApp == InitBatchOfApp /\ [][NextBatchOfApp]_vars

\* C35: when email scraping is only ever started with an app_name, every
\* store admitted, by the start or by the replenishment after a job of
\* the batch completes, belongs to that app.
C35_BatchStaysInApp ==
  \A s \in active_email_scraping_jobs : AppOf(s) \in BatchApps

(* ------- url-finder: a URL saved between the fetch and the claim ------- *)

\* C37: a store of the worker's batch that update_store_url has set to
\* url_verified since the batch was fetched is not locked by the worker:
\* the worker's lock_store_for_processing call on it returns False.
C37_SavedUrlIsNotLocked ==
  [][\A p \in Workers :
       (/\ pc[p] = "lock_select"
        /\ status[cur[p]] = "url_verified"
        /\ pc'[p] # "lock_select")
         => pc'[p] = "lock_failed"]_vars

(* ---------- url-finder: the two call sites on the same result ---------- *)

\* C38: whatever result a store's last run decided on, process_store and
\* process_and_save_url take the same action on it (the same final
\* status, the same URL saved), so the action recorded is the one either
\* call site takes.
C38_CallSitesAgree ==
  \A s \in Stores :
    Decided(s) =>
      LET r == last_result[s] IN
      /\ r.action = WorkerAction(r.confidence, r.validating, r.primary_valid,
                                 r.alternative_valid)
      /\ r.action = ApiAction(r.confidence, r.validating, r.primary_valid,
                              r.alternative_valid)

(* ----- url-finder: the threads of run_continuous and their worker ------ *)

\* threading.Thread(target=worker.run_continuous).start() on the global
\* worker: the next thread not yet started.
StartThread(l) ==
  LET t == CHOOSE u \in ThreadIds :
             /\ l.thread[u].pc = "unstarted"
             /\ \A v \in ThreadIds : v < u => l.thread[v].pc # "unstarted"
  IN [l EXCEPT !.thread[t] = [pc |-> "started", worker |-> l.worker],
               !.worker_thread = t]

\* A thread can still be started.
CanStartThread == \E t \in ThreadIds : loops.thread[t].pc = "unstarted"

\* POST /api/worker/start: "if worker.running" answers 'already running';
\* otherwise a thread is started on worker.run_continuous.
StartWorkerRequest ==
  /\ loops.provider_pc = "idle"
  /\ ~loops.running[loops.worker]
  /\ CanStartThread
  /\ loops' = StartThread(loops)
  /\ UNCHANGED othersOfThreads

\* run_continuous, first statement: self.running = True.
RunContinuousEnter(t) ==
  /\ loops.thread[t].pc = "started"
  /\ loops' = [loops EXCEPT !.running[loops.thread[t].worker] = TRUE,
                            !.thread[t].pc = "while"]
  /\ UNCHANGED othersOfThreads

\* "while self.running:": the loop returns when the flag is False;
\* otherwise the cycle finds no pending store and sleeps, or processes the
\* stores of its batch.
WhileHead(t) ==
  /\ loops.thread[t].pc = "while"
  /\ \E next \in IF loops.running[loops.thread[t].worker]
                 THEN {"sleeping", "processing"} ELSE {"returned"} :
       loops' = [loops EXCEPT !.thread[t].pc = next]
  /\ UNCHANGED othersOfThreads

\* time.sleep(WORKER_SLEEP_SECONDS) returns.
SleepEnds(t) ==
  /\ loops.thread[t].pc = "sleeping"
  /\ loops' = [loops EXCEPT !.thread[t].pc = "while"]
  /\ UNCHANGED othersOfThreads

\* The for loop over the batch ends, by its last store or by "if not
\* self.running: break".
BatchEnds(t) ==
  /\ loops.thread[t].pc = "processing"
  /\ loops' = [loops EXCEPT !.thread[t].pc = "while"]
  /\ UNCHANGED othersOfThreads

\* POST /api/worker/stop: "if not worker.running" answers 'not running';
\* otherwise worker.stop() clears the flag. The thread is not joined.
StopWorkerRequest ==
  /\ loops.provider_pc = "idle"
  /\ loops.running[loops.worker]
  /\ loops' = [loops EXCEPT !.running[loops.worker] = FALSE]
  /\ UNCHANGED othersOfThreads

\* POST /api/worker/provider, up to the join: a running worker is stopped
\* and worker_thread.join(timeout=5) is called.
WorkerProviderStop ==
  /\ loops.provider_pc = "idle"
  /\ loops.worker < MaxWorkers
  /\ loops' = [loops EXCEPT !.was_running = loops.running[loops.worker],
                            !.running[loops.worker] = FALSE,
                            !.provider_pc = "join"]
  /\ UNCHANGED othersOfThreads

\* POST /api/worker/provider, after the join, which returns when the
\* thread has returned or after five seconds: init_worker makes a new
\* BackgroundWorker the global worker, and a thread is started on it when
\* the old worker was running.
WorkerProviderRestart ==
  /\ loops.provider_pc = "join"
  /\ loops.was_running => CanStartThread
  /\ LET l == [loops EXCEPT !.worker = loops.worker + 1,
                            !.provider_pc = "idle",
                            !.was_running = FALSE]
     IN loops' = IF loops.was_running THEN StartThread(l) ELSE l
  /\ UNCHANGED othersOfThreads

InitThreads ==
  /\ InitUrlVars /\ InitEmailVars /\ InitCrawlVars /\ InitSchedRetryResolve
  /\ InitFallbackVars /\ InitLoopVars /\ InitStatsVars /\ InitJobVars
  /\ InitPureVars /\ InitContentVars /\ InitGeminiVars /\ InitNormVars
  /\ InitDiscoverVars
  /\ InitThreadVars

NextThreads ==
  \/ StartWorkerRequest
  \/ \E t \in ThreadIds : RunContinuousEnter(t)
  \/ \E t \in ThreadIds : WhileHead(t)
  \/ \E t \in ThreadIds : SleepEnds(t)
  \/ \E t \in ThreadIds : BatchEnds(t)
  \/ StopWorkerRequest
  \/ WorkerProviderStop
  \/ WorkerProviderRestart

SpecThreads == InitThreads /\ [][NextThreads]_vars

\* The thread is inside the while loop of run_continuous.
InLoop(t) == loops.thread[t].pc \in {"while", "sleeping", "processing"}

\* C39: whatever start, stop and provider-change requests were made, no
\* two threads are inside the loop of run_continuous on the same
\* BackgroundWorker at the same time.
C39_OneLoopPerWorker ==
  \A t, u \in ThreadIds :
    (t # u /\ InLoop(t) /\ InLoop(u))
      => loops.thread[t].worker # loops.thread[u].worker

(* ------ email-scraper: a batch whose crawls all come to an end --------- *)

\* A step of the admission call that caller c is in.
AdmissionStep(c) ==
  \/ StartNextSnapshot(c)
  \/ StartNextQuery(c)
  \/ StartNextAdd(c)
  \/ StartBatchQuery(c)
  \/ StartBatchLoop(c)

\* The crawl of store s ends, with emails stored or with a scraping_error.
CrawlEnds(s) ==
  \E c \in Callers, stored \in BOOLEAN : FinishScrapeEmailsForStore(c, s, stored)

InitBatchRuns == InitSched

NextBatchRuns ==
  \/ \E c \in Callers : StartBatchSnapshot(c, NoApp)
  \/ \E c \in Callers : AdmissionStep(c)
  \/ \E s \in SchedStores : CrawlEnds(s)

\* Every admission call runs to its return (the request's thread and the
\* executor's threads are scheduled), and every crawl that was admitted
\* ends (page fetches have timeouts, the crawl is bounded by max_pages).
SpecBatchRuns ==
  /\ InitBatchRuns
  /\ [][NextBatchRuns]_vars
  /\ \A c \in Callers : WF_vars(AdmissionStep(c))
  /\ \A s \in SchedStores : SF_vars(CrawlEnds(s))

\* C40: once a batch is running, every store that is pending is admitted
\* at some later time, whatever the outcomes of the other stores' crawls.
C40_NoStarvation ==
  \A s \in SchedStores :
    (s \in pending_rows /\ active_email_scraping_jobs # {})
      ~> (s \in active_email_scraping_jobs)

====
